---- MODULE Spec2Model ----
(***************************************************************************)
(* Authentication and session-token subsystem of the contacts API:         *)
(* registration, login, refresh-token rotation, email confirmation,        *)
(* password reset, current-user resolution through the identity cache, and  *)
(* role authorization.                                                      *)
(*                                                                          *)
(* Every HTTP request is handled by a task.  A task takes one step per      *)
(* database statement / commit / cache call (the await points of the        *)
(* handler); everything the handler computes between two await points is    *)
(* part of the step that follows the first of them.  Time is the wall       *)
(* clock in whole seconds, the resolution of the iat and exp claims.        *)
(***************************************************************************)
EXTENDS Integers, Sequences, FiniteSets, TLC

VARIABLES
    users,            \* rows of table users
    next_user_id,     \* autoincrement of users.id
    refresh_tokens,   \* rows of table refresh_tokens
    next_token_id,    \* autoincrement of refresh_tokens.id
    cache,            \* Redis: entries  key |-> value, with the time of the set
    now,              \* wall clock, seconds
    ticks,            \* number of clock advances so far
    task,             \* the request-handling tasks
    background,       \* BackgroundTasks scheduled and not yet run
    mailbox,          \* email tokens delivered to users
    known,            \* token strings handed out in responses
    contacts,         \* rows of table contacts
    next_contact_id,  \* autoincrement of contacts.id
    spent             \* refresh token strings a refresh has succeeded with

vars == <<users, next_user_id, refresh_tokens, next_token_id, cache, now,
          ticks, task, background, mailbox, known, spent, contacts,
          next_contact_id>>

(***************************************************************************)
(* Bounds of the model.                                                     *)
(***************************************************************************)
MaxTicks == 2
MaxRecords == 2
MaxUsers == 2
MaxMail == 2
MaxContacts == 2

Tasks == {"t1", "t2"}

(***************************************************************************)
(* Program constants.                                                       *)
(***************************************************************************)
ACCESS_TOKEN_EXPIRATION_SECONDS == 3600
REFRESH_TOKEN_EXPIRATION_SECONDS == 604800
CACHE_EX == 3600
EMAIL_TOKEN_DAYS == 7

\* timedelta(minutes=m), timedelta(days=d) in seconds
timedelta_minutes(m) == m * 60
timedelta_days(d) == d * 86400

(***************************************************************************)
(* Values.                                                                  *)
(***************************************************************************)
None == "<None>"
USER == "user"
ADMIN == "admin"
UserRole == {USER, ADMIN}

NoToken == [sub |-> None, typ |-> None, iat |-> 0, exp |-> 0, sig |-> None]
NoUser == [id |-> 0, username |-> None, email |-> None, hashed_password |-> <<>>,
           confirmed |-> FALSE, role |-> None, avatar |-> None, created_at |-> 0]
NoDto == [token |-> NoToken, expires_at |-> 0, created_at |-> 0]
NoBody == [username |-> None, email |-> None, password |-> None, role |-> None]
NoJson == [id |-> 0, username |-> None, email |-> None, role |-> None, avatar |-> None]
\* strings that are searched are sequences of characters; a NULL string
NoStr == <<None>>
\* dates are days since 1970-01-01; a NULL date
NoDate == -1
NoContact == [id |-> 0, user_id |-> 0, first_name |-> NoStr, email |-> NoStr,
              birthday |-> NoDate]
NoQuery == [skip |-> 0, limit |-> 0, first_name |-> NoStr, email |-> NoStr,
            days |-> 0]
NoResp == [status |-> 0, detail |-> None, access_token |-> NoToken,
           refresh_token |-> NoToken, token_type |-> None, user |-> NoUser,
           json |-> NoJson, contact |-> NoContact, contacts |-> <<>>]

(***************************************************************************)
(* Credential hasher (passlib bcrypt context).                              *)
(***************************************************************************)
get_password_hash(password) == <<"bcrypt", password>>

\* variant: every password verifies
verify_password_any(plain_password, hashed_password) == TRUE

verify_password(plain_password, hashed_password) ==
    hashed_password = <<"bcrypt", plain_password>>

(***************************************************************************)
(* Token codec.  A token string is the signed encoding of its claims; the   *)
(* encoding is injective, so the string is modelled by the claims and the   *)
(* state of the signature.  iat and exp are whole seconds.                  *)
(***************************************************************************)
jwt_encode(sub, iat, exp, token_type) ==
    [sub |-> sub, typ |-> token_type, iat |-> iat, exp |-> exp, sig |-> "ok"]

\* variant: the signature is verified and exp is not
jwt_decode_no_exp(token, t) ==
    IF token.sig # "ok" THEN [ok |-> FALSE, error |-> "JWTError", payload |-> NoToken]
    ELSE [ok |-> TRUE, error |-> None, payload |-> token]

\* jose.jwt.decode: signature first, then exp against the clock
jwt_decode(token, t) ==
    IF token.sig # "ok" THEN [ok |-> FALSE, error |-> "JWTError", payload |-> NoToken]
    ELSE IF token.exp < t THEN [ok |-> FALSE, error |-> "ExpiredSignatureError", payload |-> NoToken]
    ELSE [ok |-> TRUE, error |-> None, payload |-> token]

create_token(sub, expires_delta, token_type, t) ==
    [token |-> jwt_encode(sub, t, t + expires_delta, token_type),
     expires_at |-> t + expires_delta,
     created_at |-> t]

create_access_token(sub, t) ==
    create_token(sub, ACCESS_TOKEN_EXPIRATION_SECONDS, "access", t).token

\* the TokenDto that create_refresh_token and update_refresh_token build
refresh_token_dto(sub, t) ==
    create_token(sub, timedelta_minutes(REFRESH_TOKEN_EXPIRATION_SECONDS), "refresh", t)

create_email_token(sub, t) ==
    jwt_encode(sub, t, t + timedelta_days(EMAIL_TOKEN_DAYS), None)

\* a token string whose signature does not verify
Tampered(token) == [token EXCEPT !.sig = "bad"]

(***************************************************************************)
(* Repositories: the queries.                                               *)
(***************************************************************************)
\* scalar_one_or_none over a set of rows that holds at most one row
scalar_one_or_none(rows, none) == IF rows = {} THEN none ELSE CHOOSE r \in rows : TRUE

get_user_by_id(user_id) ==
    scalar_one_or_none({u \in users : u.id = user_id}, NoUser)

get_user_by_username(username) ==
    scalar_one_or_none({u \in users : u.username = username}, NoUser)

get_user_by_email(email) ==
    scalar_one_or_none({u \in users : u.email = email}, NoUser)

\* variant: the user is looked up by the username alone
get_user_by_username_any_token(username, token) ==
    scalar_one_or_none({u \in users : u.username = username}, NoUser)

get_user_by_username_and_by_refresh_token(username, token) ==
    scalar_one_or_none(
        {u \in users : /\ u.username = username
                       /\ \E r \in refresh_tokens : r.user_id = u.id /\ r.token = token},
        NoUser)

\* variant: created_at is left to the column default (the time 0 of the model)
map_refresh_token_default_created_at(dto, user_id) ==
    [id |-> 0, token |-> dto.token, expires_at |-> dto.expires_at,
     created_at |-> 0, user_id |-> user_id]

map_refresh_token(dto, user_id) ==
    [id |-> 0, token |-> dto.token, expires_at |-> dto.expires_at,
     created_at |-> dto.created_at, user_id |-> user_id]

\* variant: the column is not unique
TokenNeverTaken(token, id) == FALSE

\* unique=True on refresh_tokens.token: rows other than `id` holding the string
TokenTaken(token, id) == \E r \in refresh_tokens : r.id # id /\ r.token = token

(***************************************************************************)
(* Tasks.  op is the endpoint, pc the await point the handler is at, at the *)
(* arrival time of the request; body and tok are the request; the other     *)
(* fields are the handler's local variables, resp its response, calls the   *)
(* calls get_current_user has made to the cache, the codec and the          *)
(* database, in their order.                                                *)
(***************************************************************************)
Idle == [op |-> "idle", pc |-> "idle", at |-> 0, body |-> NoBody, tok |-> NoToken,
         cached |-> FALSE, user |-> NoUser, access |-> NoToken, dto |-> NoDto,
         row |-> 0, resp |-> NoResp, calls |-> <<>>, id |-> 0, dirty |-> {},
         contact |-> NoContact, query |-> NoQuery, file |-> None]

HTTPException(status_code, detail) ==
    [NoResp EXCEPT !.status = status_code, !.detail = detail]

\* an exception no handler catches: 500 Internal Server Error
ServerError(error) == [NoResp EXCEPT !.status = 500, !.detail = error]

TokenResponse(access_token, refresh_token) ==
    [NoResp EXCEPT !.status = 200, !.access_token = access_token,
                   !.refresh_token = refresh_token, !.token_type = "bearer"]

IsIdle(t) == task[t].pc = "idle"
At(t, op, pc) == task[t].op = op /\ task[t].pc = pc

\* a request arrives and its handler runs to its first await point
Begin(t, fields) == task' = [task EXCEPT ![t] = fields]

\* the handler moves on to its next await point
Goto(t, fields) == task' = [task EXCEPT ![t] = fields]

\* the handler ends with a response
Done(t, fields, resp) == task' = [task EXCEPT ![t] = [fields EXCEPT !.pc = "done", !.resp = resp]]

\* token strings signed with the secret outside the API (as the unit tests
\* build them with jwt.encode): without a subject
Crafted == {jwt_encode(None, 0, timedelta_days(10000), "refresh"),
            jwt_encode(None, 0, timedelta_days(10000), "access")}

\* an access token signed with the secret for a subject that is no user's
\* email and no user's username (as test_confirmed_email_user_not_found_by_email
\* makes it)
SomeEmailToken == create_access_token("some@example.com", 0)

\* the token strings a client can present
Presentable ==
    LET have == known \cup {m.token : m \in mailbox}
    IN  have \cup {Tampered(k) : k \in have} \cup Crafted

(***************************************************************************)
(* POST /auth/register                                                      *)
(***************************************************************************)
\* schemas.UserCreate: role is a field without a default, so a body without
\* it does not validate (the model's usernames, emails and passwords satisfy
\* the other constraints)
UserCreate(body) == body.role \in UserRole

\* schemas.User, the response model
User(user) == [id |-> user.id, username |-> user.username, email |-> user.email,
               role |-> user.role, avatar |-> user.avatar]

\* libgravatar: the avatar URL is a function of the email
Gravatar(email) == <<"gravatar", email>>

\* variant: no unique constraint on users
UserNeverTaken(username, email) == FALSE

\* unique=True on users.username and users.email
UserTaken(username, email) ==
    \E u \in users : u.username = username \/ u.email = email

\* validation of the body, then the lookup by email
register_user(t, body) ==
    /\ IsIdle(t)
    /\ LET req == [Idle EXCEPT !.op = "register", !.at = now, !.body = body]
       IN  IF ~UserCreate(body)
           THEN Done(t, req, HTTPException(422, "RequestValidationError"))
           ELSE IF get_user_by_email(body.email) # NoUser
           THEN Done(t, req, HTTPException(409, "User with such email already exists"))
           ELSE Begin(t, [req EXCEPT !.pc = "username"])
    /\ UNCHANGED <<users, next_user_id, refresh_tokens, next_token_id, cache,
                   now, ticks, background, mailbox, known, spent,
                   contacts, next_contact_id>>

\* the lookup by username, then the hashing of the password
register_user_username(t) ==
    /\ At(t, "register", "username")
    /\ IF get_user_by_username(task[t].body.username) # NoUser
       THEN Done(t, task[t], HTTPException(409, "User with such username already exists"))
       ELSE Goto(t, [task[t] EXCEPT !.pc = "insert",
                        !.body.password = get_password_hash(task[t].body.password)])
    /\ UNCHANGED <<users, next_user_id, refresh_tokens, next_token_id, cache,
                   now, ticks, background, mailbox, known, spent,
                   contacts, next_contact_id>>

\* UserRepository.create_user: add, commit, refresh; then the confirmation
\* email is scheduled and the user returned
register_user_insert(t) ==
    /\ At(t, "register", "insert")
    /\ LET body == task[t].body
           new_user == [id |-> next_user_id, username |-> body.username,
                        email |-> body.email, hashed_password |-> body.password,
                        confirmed |-> FALSE, role |-> body.role,
                        avatar |-> Gravatar(body.email), created_at |-> now]
       IN  IF UserTaken(body.username, body.email)
           THEN /\ Done(t, task[t], ServerError("IntegrityError"))
                /\ UNCHANGED <<users, next_user_id, background, spent,
                   contacts, next_contact_id>>
           ELSE /\ Cardinality(users) < MaxUsers
                /\ Len(background) < MaxMail
                /\ users' = users \cup {new_user}
                /\ next_user_id' = next_user_id + 1
                /\ background' = Append(background,
                       [func |-> "send_confirm_email", email |-> new_user.email,
                        username |-> new_user.username])
                /\ Done(t, [task[t] EXCEPT !.user = new_user],
                        [NoResp EXCEPT !.status = 201, !.json = User(new_user)])
    /\ UNCHANGED <<refresh_tokens, next_token_id, cache, now, ticks, mailbox, known, spent,
                   contacts, next_contact_id>>

\* variant: a delivery failure reaches the response of the request
send_email_raising(delivered) ==
    /\ background # <<>>
    /\ delivered => Cardinality(mailbox) < MaxMail
    /\ mailbox' = IF delivered
                  THEN mailbox \cup {[func |-> Head(background).func,
                                      email |-> Head(background).email,
                                      token |-> create_email_token(Head(background).email, now)]}
                  ELSE mailbox
    /\ task' = [t \in Tasks |->
                  IF ~delivered /\ task[t].pc = "done"
                  THEN [task[t] EXCEPT !.resp = ServerError("ConnectionErrors")]
                  ELSE task[t]]
    /\ background' = Tail(background)
    /\ UNCHANGED <<users, next_user_id, refresh_tokens, next_token_id, cache,
                   now, ticks, known, spent,
                   contacts, next_contact_id>>

(***************************************************************************)
(* The background tasks: send_confirm_email / send_reset_password_email.    *)
(* send_email makes the token when it runs; a ConnectionErrors of the mail  *)
(* server is printed and the token never arrives.                           *)
(***************************************************************************)
send_email(delivered) ==
    /\ background # <<>>
    /\ delivered => Cardinality(mailbox) < MaxMail
    /\ LET job == Head(background)
           token_verification == create_email_token(job.email, now)
       IN  mailbox' = IF delivered
                      THEN mailbox \cup {[func |-> job.func, email |-> job.email,
                                          token |-> token_verification]}
                      ELSE mailbox
    /\ background' = Tail(background)
    /\ UNCHANGED <<users, next_user_id, refresh_tokens, next_token_id, cache,
                   now, ticks, task, known, spent,
                   contacts, next_contact_id>>

(***************************************************************************)
(* POST /auth/login                                                         *)
(***************************************************************************)
Usernames == {"deadpool", "adminuser", "notconfirmed", "wrongusername"}
Passwords == {"Password123!", "AdminPassword123!", "NotPassword123!"}

\* variant: the confirmation of the email is looked at before the password
login_user_confirmed_first(t, username, password) ==
    /\ IsIdle(t)
    /\ LET user == get_user_by_username(username)
           req == [Idle EXCEPT !.op = "login", !.at = now,
                               !.body = [NoBody EXCEPT !.username = username,
                                                       !.password = password]]
       IN  IF user = NoUser
           THEN Done(t, req, HTTPException(401, "Not valid password or username"))
           ELSE IF ~user.confirmed
           THEN Done(t, req, HTTPException(401, "Email must be confirmed"))
           ELSE IF ~verify_password(password, user.hashed_password)
           THEN Done(t, req, HTTPException(401, "Not valid password or username"))
           ELSE Begin(t, [req EXCEPT !.pc = "insert", !.user = user,
                                     !.access = create_access_token(user.username, now),
                                     !.dto = refresh_token_dto(user.username, now)])
    /\ UNCHANGED <<users, next_user_id, refresh_tokens, next_token_id, cache,
                   now, ticks, background, mailbox, known, spent,
                   contacts, next_contact_id>>

\* variant: the confirmation of the email is not asked for
login_user_unconfirmed(t, username, password) ==
    /\ IsIdle(t)
    /\ LET user == get_user_by_username(username)
           req == [Idle EXCEPT !.op = "login", !.at = now,
                               !.body = [NoBody EXCEPT !.username = username,
                                                       !.password = password]]
       IN  IF user = NoUser \/ ~verify_password(password, user.hashed_password)
           THEN Done(t, req, HTTPException(401, "Not valid password or username"))
           ELSE Begin(t, [req EXCEPT !.pc = "insert", !.user = user,
                                     !.access = create_access_token(user.username, now),
                                     !.dto = refresh_token_dto(user.username, now)])
    /\ UNCHANGED <<users, next_user_id, refresh_tokens, next_token_id, cache,
                   now, ticks, background, mailbox, known, spent,
                   contacts, next_contact_id>>

\* the lookup, the credential checks and the issue of both tokens
login_user(t, username, password) ==
    /\ IsIdle(t)
    /\ LET user == get_user_by_username(username)
           req == [Idle EXCEPT !.op = "login", !.at = now,
                               !.body = [NoBody EXCEPT !.username = username,
                                                       !.password = password]]
       IN  IF user = NoUser \/ ~verify_password(password, user.hashed_password)
           THEN Done(t, req, HTTPException(401, "Not valid password or username"))
           ELSE IF ~user.confirmed
           THEN Done(t, req, HTTPException(401, "Email must be confirmed"))
           ELSE Begin(t, [req EXCEPT !.pc = "insert", !.user = user,
                                     !.access = create_access_token(user.username, now),
                                     !.dto = refresh_token_dto(user.username, now)])
    /\ UNCHANGED <<users, next_user_id, refresh_tokens, next_token_id, cache,
                   now, ticks, background, mailbox, known, spent,
                   contacts, next_contact_id>>

\* RefreshTokenRepository.create_refresh_token: add, commit, refresh
login_user_insert(t) ==
    /\ At(t, "login", "insert")
    /\ LET row == [map_refresh_token(task[t].dto, task[t].user.id) EXCEPT !.id = next_token_id]
       IN  IF TokenTaken(row.token, row.id)
           THEN /\ Done(t, task[t], ServerError("IntegrityError"))
                /\ UNCHANGED <<refresh_tokens, next_token_id, spent,
                   contacts, next_contact_id>>
           ELSE /\ Cardinality(refresh_tokens) < MaxRecords
                /\ refresh_tokens' = refresh_tokens \cup {row}
                /\ next_token_id' = next_token_id + 1
                /\ Done(t, [task[t] EXCEPT !.row = row.id],
                        TokenResponse(task[t].access, row.token))
    /\ UNCHANGED <<users, next_user_id, cache, now, ticks, background, mailbox, known, spent,
                   contacts, next_contact_id>>

(***************************************************************************)
(* POST /auth/refresh-token                                                 *)
(***************************************************************************)
\* verify_refresh_token: the user the token belongs to, or NoUser
verify_refresh_token(refresh_token, t) ==
    LET d == jwt_decode(refresh_token, t)
    IN  IF ~d.ok THEN NoUser
        ELSE IF d.payload.sub = None \/ d.payload.typ # "refresh" THEN NoUser
        ELSE get_user_by_username_and_by_refresh_token(d.payload.sub, refresh_token)

\* verify, then issue the access token and build the new refresh token
new_token(t, refresh_token) ==
    /\ IsIdle(t)
    /\ LET user == verify_refresh_token(refresh_token, now)
           req == [Idle EXCEPT !.op = "refresh", !.at = now, !.tok = refresh_token]
       IN  IF user = NoUser
           THEN Done(t, req, HTTPException(401, "Invalid or expired refresh token"))
           ELSE Begin(t, [req EXCEPT !.pc = "select", !.user = user,
                                     !.access = create_access_token(user.username, now),
                                     !.dto = refresh_token_dto(user.username, now)])
    /\ UNCHANGED <<users, next_user_id, refresh_tokens, next_token_id, cache,
                   now, ticks, background, mailbox, known, spent,
                   contacts, next_contact_id>>

\* variant: the select looks at the token string only
existing_token_of_any_user(old_refresh_token, user_id) ==
    {r \in refresh_tokens : r.token = old_refresh_token}

\* select(RefreshToken).filter_by(token=old_refresh_token, user_id=user_id)
existing_token(old_refresh_token, user_id) ==
    {r \in refresh_tokens : r.token = old_refresh_token /\ r.user_id = user_id}

\* RefreshTokenRepository.update_refresh_token: the select by (token, user_id);
\* without a row nothing is written and the handler still answers 200
new_token_select(t) ==
    /\ At(t, "refresh", "select")
    /\ LET existing == existing_token(task[t].tok, task[t].user.id)
       IN  IF existing = {}
           THEN /\ Done(t, task[t], TokenResponse(task[t].access, task[t].tok))
                /\ spent' = spent \cup {task[t].tok}
           ELSE /\ Goto(t, [task[t] EXCEPT !.pc = "commit",
                                           !.row = (CHOOSE r \in existing : TRUE).id])
                /\ UNCHANGED spent
    /\ UNCHANGED <<users, next_user_id, refresh_tokens, next_token_id, cache,
                   now, ticks, background, mailbox, known,
                   contacts, next_contact_id>>

\* variant: the rotation deletes the row and inserts a new one
new_token_commit_insert(t) ==
    /\ At(t, "refresh", "commit")
    /\ ~TokenTaken(task[t].dto.token, task[t].row)
    /\ spent' = spent \cup {task[t].tok}
    /\ refresh_tokens' =
          {r \in refresh_tokens : r.id # task[t].row}
             \cup {[map_refresh_token(task[t].dto, task[t].user.id)
                      EXCEPT !.id = next_token_id]}
    /\ next_token_id' = next_token_id + 1
    /\ Done(t, task[t], TokenResponse(task[t].access, task[t].tok))
    /\ UNCHANGED <<users, next_user_id, cache, now, ticks,
                   background, mailbox, known, contacts, next_contact_id>>

\* the overwrite of the row and the commit
new_token_commit(t) ==
    /\ At(t, "refresh", "commit")
    /\ LET dto == task[t].dto
       IN  IF TokenTaken(dto.token, task[t].row)
           THEN /\ Done(t, task[t], ServerError("IntegrityError"))
                /\ UNCHANGED <<refresh_tokens, spent,
                   contacts, next_contact_id>>
           ELSE /\ spent' = spent \cup {task[t].tok}
                /\ refresh_tokens' =
                      {IF r.id = task[t].row
                       THEN [r EXCEPT !.token = dto.token, !.expires_at = dto.expires_at,
                                      !.created_at = dto.created_at]
                       ELSE r : r \in refresh_tokens}
                /\ Done(t, task[t], TokenResponse(task[t].access, task[t].tok))
    /\ UNCHANGED <<users, next_user_id, next_token_id, cache, now, ticks,
                   background, mailbox, known,
                   contacts, next_contact_id>>

(***************************************************************************)
(* RefreshTokenRepository.update_refresh_token called on its own, as the    *)
(* repository's unit tests call it: the value it returns is the id of the   *)
(* row in the field row (0 for None).                                       *)
(***************************************************************************)
update_refresh_token(t, old_refresh_token, refresh_token, user_id) ==
    /\ IsIdle(t)
    /\ LET req == [Idle EXCEPT !.op = "update_refresh_token", !.at = now,
                               !.tok = old_refresh_token, !.dto = refresh_token,
                               !.id = user_id]
           existing == existing_token(old_refresh_token, user_id)
       IN  IF existing = {}
           THEN Done(t, req, NoResp)
           ELSE Begin(t, [req EXCEPT !.pc = "commit",
                                     !.row = (CHOOSE r \in existing : TRUE).id])
    /\ UNCHANGED <<users, next_user_id, refresh_tokens, next_token_id, cache,
                   now, ticks, background, mailbox, known, spent,
                   contacts, next_contact_id>>

\* the overwrite of the row, the commit and the refresh
update_refresh_token_commit(t) ==
    /\ At(t, "update_refresh_token", "commit")
    /\ LET dto == task[t].dto
       IN  IF TokenTaken(dto.token, task[t].row)
           THEN /\ Done(t, [task[t] EXCEPT !.row = 0], ServerError("IntegrityError"))
                /\ UNCHANGED refresh_tokens
           ELSE /\ refresh_tokens' =
                      {IF r.id = task[t].row
                       THEN [r EXCEPT !.token = dto.token, !.expires_at = dto.expires_at,
                                      !.created_at = dto.created_at]
                       ELSE r : r \in refresh_tokens}
                /\ Done(t, task[t], NoResp)
    /\ UNCHANGED <<users, next_user_id, next_token_id, cache, now, ticks,
                   background, mailbox, known, spent, contacts, next_contact_id>>

(***************************************************************************)
(* Email confirmation and password reset.                                   *)
(***************************************************************************)
\* a handler that returns {"message": ...}
Message(message) == [NoResp EXCEPT !.status = 200, !.detail = message]

\* variant: the subject is read without verifying the token
get_email_from_token_unverified(token, t) ==
    IF token.sub = None THEN [email |-> None, error |-> ServerError("KeyError")]
    ELSE [email |-> token.sub, error |-> NoResp]

\* get_email_from_token: the subject of any token that decodes (no check of
\* the token_type); payload["sub"] of a token without a subject is a KeyError,
\* which is no JWTError and is not caught
\* variant: only a token whose token_type is "access" is taken, as
\* get_current_user does
get_email_from_token_typed(token, t) ==
    LET d == jwt_decode(token, t)
    IN  IF ~d.ok \/ d.payload.typ # "access"
        THEN [email |-> None, error |-> HTTPException(422, "Not valid token")]
        ELSE IF d.payload.sub = None THEN [email |-> None, error |-> ServerError("KeyError")]
        ELSE [email |-> d.payload.sub, error |-> NoResp]

get_email_from_token(token, t) ==
    LET d == jwt_decode(token, t)
    IN  IF ~d.ok THEN [email |-> None, error |-> HTTPException(422, "Not valid token")]
        ELSE IF d.payload.sub = None THEN [email |-> None, error |-> ServerError("KeyError")]
        ELSE [email |-> d.payload.sub, error |-> NoResp]

\* variant: the flag is never seen set
is_confirmed_never(user) == FALSE

\* `if user.confirmed:` of confirmed_email and request_email
is_confirmed(user) == user.confirmed

\* UserRepository.confirmed_email: user.confirmed = True
confirm(user) == [user EXCEPT !.confirmed = TRUE]

\* variant: the hash is not replaced
set_password_kept(user, hashed_password) == user

\* UserRepository.reset_password: user.hashed_password = hashed_password
set_password(user, hashed_password) == [user EXCEPT !.hashed_password = hashed_password]

\* GET /auth/confirmed_email/{token}: the token, then the lookup by email
confirmed_email(t, token) ==
    /\ IsIdle(t)
    /\ LET req == [Idle EXCEPT !.op = "confirmed_email", !.at = now, !.tok = token]
           e == get_email_from_token(token, now)
           user == get_user_by_email(e.email)
       IN  IF e.error # NoResp THEN Done(t, req, e.error)
           ELSE IF user = NoUser
           THEN Done(t, req, HTTPException(400, "Verification error"))
           ELSE IF is_confirmed(user)
           THEN Done(t, [req EXCEPT !.user = user],
                     Message("Your email is already confirmed"))
           ELSE Begin(t, [req EXCEPT !.pc = "commit", !.user = user])
    /\ UNCHANGED <<users, next_user_id, refresh_tokens, next_token_id, cache,
                   now, ticks, background, mailbox, known, spent,
                   contacts, next_contact_id>>

\* UserRepository.confirmed_email: select by email, set the flag, commit
\* (the UPDATE writes the column confirmed of the row and nothing else)
confirmed_email_commit(t) ==
    /\ At(t, "confirmed_email", "commit")
    /\ users' = {IF u.id = task[t].user.id THEN confirm(u) ELSE u : u \in users}
    /\ Done(t, task[t], Message("Email confirmed successfully"))
    /\ UNCHANGED <<next_user_id, refresh_tokens, next_token_id, cache,
                   now, ticks, background, mailbox, known, spent,
                   contacts, next_contact_id>>

\* variant: the email is scheduled for a confirmed user too
request_email_unchecked(t, email) ==
    /\ IsIdle(t)
    /\ LET req == [Idle EXCEPT !.op = "request_email", !.at = now, !.body.email = email]
           user == get_user_by_email(email)
       IN  IF user = NoUser
           THEN /\ Done(t, req, HTTPException(400, "Verification error"))
                /\ UNCHANGED background
           ELSE /\ Len(background) < MaxMail
                /\ background' = Append(background,
                       [func |-> "send_confirm_email", email |-> user.email,
                        username |-> user.username])
                /\ Done(t, [req EXCEPT !.user = user],
                        Message("Check your mailbox for confirmation email"))
    /\ UNCHANGED <<users, next_user_id, refresh_tokens, next_token_id, cache,
                   now, ticks, mailbox, known, spent,
                   contacts, next_contact_id>>

\* POST /auth/request-email
request_email(t, email) ==
    /\ IsIdle(t)
    /\ LET req == [Idle EXCEPT !.op = "request_email", !.at = now, !.body.email = email]
           user == get_user_by_email(email)
       IN  IF user = NoUser
           THEN /\ Done(t, req, HTTPException(400, "Verification error"))
                /\ UNCHANGED background
           ELSE IF is_confirmed(user)
           THEN /\ Done(t, [req EXCEPT !.user = user],
                        Message("Your email is already confirmed"))
                /\ UNCHANGED background
           ELSE /\ Len(background) < MaxMail
                /\ background' = Append(background,
                       [func |-> "send_confirm_email", email |-> user.email,
                        username |-> user.username])
                /\ Done(t, [req EXCEPT !.user = user],
                        Message("Check your mailbox for confirmation email"))
    /\ UNCHANGED <<users, next_user_id, refresh_tokens, next_token_id, cache,
                   now, ticks, mailbox, known, spent,
                   contacts, next_contact_id>>

\* variant: the reset email is scheduled for an unconfirmed user too
reset_password_request_unchecked(t, email) ==
    /\ IsIdle(t)
    /\ LET req == [Idle EXCEPT !.op = "reset_password_request", !.at = now,
                               !.body.email = email]
           user == get_user_by_email(email)
       IN  IF user = NoUser
           THEN /\ Done(t, req, HTTPException(400, "Verification error"))
                /\ UNCHANGED background
           ELSE /\ Len(background) < MaxMail
                /\ background' = Append(background,
                       [func |-> "send_reset_password_email", email |-> user.email,
                        username |-> user.username])
                /\ Done(t, [req EXCEPT !.user = user],
                        Message("Check your mailbox for reset password email"))
    /\ UNCHANGED <<users, next_user_id, refresh_tokens, next_token_id, cache,
                   now, ticks, mailbox, known, spent,
                   contacts, next_contact_id>>

\* POST /auth/reset-password-request
reset_password_request(t, email) ==
    /\ IsIdle(t)
    /\ LET req == [Idle EXCEPT !.op = "reset_password_request", !.at = now,
                               !.body.email = email]
           user == get_user_by_email(email)
       IN  IF user = NoUser
           THEN /\ Done(t, req, HTTPException(400, "Verification error"))
                /\ UNCHANGED background
           ELSE IF ~user.confirmed
           THEN /\ Done(t, [req EXCEPT !.user = user],
                        HTTPException(401, "Email must be confirmed"))
                /\ UNCHANGED background
           ELSE /\ Len(background) < MaxMail
                /\ background' = Append(background,
                       [func |-> "send_reset_password_email", email |-> user.email,
                        username |-> user.username])
                /\ Done(t, [req EXCEPT !.user = user],
                        Message("Check your mailbox for reset password email"))
    /\ UNCHANGED <<users, next_user_id, refresh_tokens, next_token_id, cache,
                   now, ticks, mailbox, known, spent,
                   contacts, next_contact_id>>

\* GET /auth/reset-password-form/{token}: the token, the lookup by email, then
\* the page with the form
reset_password_form(t, token) ==
    /\ IsIdle(t)
    /\ LET req == [Idle EXCEPT !.op = "reset_password_form", !.at = now, !.tok = token]
           e == get_email_from_token(token, now)
           user == get_user_by_email(e.email)
       IN  IF e.error # NoResp THEN Done(t, req, e.error)
           ELSE IF user = NoUser
           THEN Done(t, req, HTTPException(400, "Verification error"))
           ELSE Done(t, [req EXCEPT !.user = user], Message("reset_password_form.html"))
    /\ UNCHANGED <<users, next_user_id, refresh_tokens, next_token_id, cache,
                   now, ticks, background, mailbox, known, spent,
                   contacts, next_contact_id>>

\* POST /auth/reset-password: the form, the token, the lookup by email and
\* the hashing of the new password (a field left out is NoToken / None)
reset_password(t, token, new_password) ==
    /\ IsIdle(t)
    /\ LET req == [Idle EXCEPT !.op = "reset_password", !.at = now, !.tok = token,
                               !.body.password = new_password]
           e == get_email_from_token(token, now)
           user == get_user_by_email(e.email)
       IN  IF token = NoToken \/ new_password = None
           THEN Done(t, req, HTTPException(400, "Invalid data"))
           ELSE IF e.error # NoResp THEN Done(t, req, e.error)
           ELSE IF user = NoUser
           THEN Done(t, req, HTTPException(400, "Verification error"))
           ELSE Begin(t, [req EXCEPT !.pc = "commit", !.user = user,
                                     !.body.password = get_password_hash(new_password)])
    /\ UNCHANGED <<users, next_user_id, refresh_tokens, next_token_id, cache,
                   now, ticks, background, mailbox, known, spent,
                   contacts, next_contact_id>>

\* variant: the commit also drops the user's refresh token records and cache
\* entries
reset_password_commit_revoking(t) ==
    /\ At(t, "reset_password", "commit")
    /\ users' = {IF u.id = task[t].user.id THEN set_password(u, task[t].body.password)
                 ELSE u : u \in users}
    /\ refresh_tokens' = {r \in refresh_tokens : r.user_id # task[t].user.id}
    /\ cache' = {e \in cache : e.value.id # task[t].user.id}
    /\ Done(t, task[t], Message("Password has been reset successfully"))
    /\ UNCHANGED <<next_user_id, next_token_id,
                   now, ticks, background, mailbox, known, spent,
                   contacts, next_contact_id>>

\* UserRepository.reset_password: select by email, set the hash, commit
\* (the UPDATE writes the column hashed_password of the row and nothing else)
reset_password_commit(t) ==
    /\ At(t, "reset_password", "commit")
    /\ users' = {IF u.id = task[t].user.id THEN set_password(u, task[t].body.password)
                 ELSE u : u \in users}
    /\ Done(t, task[t], Message("Password has been reset successfully"))
    /\ UNCHANGED <<next_user_id, refresh_tokens, next_token_id, cache,
                   now, ticks, background, mailbox, known, spent,
                   contacts, next_contact_id>>

(***************************************************************************)
(* Identity cache and the (de)serialisation of a user.                      *)
(***************************************************************************)
isoformat(t) == <<"iso", t>>
fromisoformat(s) == s[2]

\* utils.to_dict: every column, datetimes as ISO-8601 strings
to_dict(user) == [user EXCEPT !.created_at = isoformat(user.created_at)]

\* utils.parse_datetime_fields(data, ["created_at"])
\* (the cached created_at is always a string: to_dict wrote it)
parse_datetime_fields(data) ==
    [data EXCEPT !.created_at = fromisoformat(data.created_at)]

cache_key(token) == <<"user:", token>>

\* cache.get found nothing
Miss == to_dict(NoUser)

\* variant: cache.get never finds an entry
cache_get_nothing(key, t) == {Miss}

\* what cache.get can return at time t: the value of a live entry, nothing, or
\* either of them in the second in which the entry's time to live runs out
cache_get(key, t) ==
    LET live == {e \in cache : e.key = key /\ t < e.set_at + CACHE_EX}
        last == {e \in cache : e.key = key /\ t = e.set_at + CACHE_EX}
    IN  {e.value : e \in live \cup last} \cup (IF live = {} THEN {Miss} ELSE {})

\* variant: cache.set stores nothing
cache_set_nothing(key, value, t) == cache

\* variant: cache.set adds an entry and leaves the one of the key in place
cache_set_adding(key, value, t) ==
    cache \cup {[key |-> key, value |-> value, set_at |-> t]}

\* cache.set(key, value, ex=3600)
cache_set(key, value, t) ==
    {e \in cache : e.key # key} \cup {[key |-> key, value |-> value, set_at |-> t]}

(***************************************************************************)
(* get_current_user / get_current_admin_user (dependencies of the           *)
(* protected endpoints).                                                    *)
(***************************************************************************)
credentials_exception == HTTPException(401, "Could not validate credentials")

UserResponse(user) == [NoResp EXCEPT !.status = 200, !.user = user]

\* variant: no role check
get_current_admin_user_any_role(op, user) ==
    [NoResp EXCEPT !.status = 200, !.user = user]

\* get_current_user returns the user; get_current_admin_user checks the role
\* of the user it got from get_current_user
get_current_admin_user(op, user) ==
    IF op = "get_current_admin_user" /\ user.role # ADMIN
    THEN HTTPException(403, "You are not authorized to perform this action.")
    ELSE UserResponse(user)

Resolvers == {"get_current_user", "get_current_admin_user"}

\* the handlers of api/users.py that depend on a resolver
\* (Depends(get_current_admin_user))
AdminHandlers == {"update_avatar_user", "update_user_role"}

\* the handlers of api/contacts.py (Depends(get_current_user))
ContactHandlers == {"read_contacts", "read_contact", "create_contact",
                    "update_contact", "remove_contact", "search_contacts",
                    "get_upcoming_birthdays"}

\* the resolver a request runs
Dependency(op) ==
    IF op \in AdminHandlers THEN "get_current_admin_user"
    ELSE IF op \in ContactHandlers THEN "get_current_user"
    ELSE op

\* the columns of the users table
Columns == {"username", "email", "hashed_password", "confirmed", "role",
            "avatar", "created_at"}

\* Session.merge(user): the row with the primary key of the given state is
\* loaded, the given state is copied onto it, and the columns whose value
\* changed are pending until the session flushes (autoflush is off)
merge(user) ==
    LET row == get_user_by_id(user.id)
    IN  IF row = NoUser THEN Columns
        ELSE {c \in Columns : user[c] # row[c]}

\* the flush of a commit: the pending columns of the merged user are
\* written to its row
flush(t, rows) ==
    {IF u.id = task[t].user.id /\ task[t].dirty # {}
     THEN [c \in DOMAIN u |-> IF c \in task[t].dirty THEN task[t].user[c] ELSE u[c]]
     ELSE u : u \in rows}

\* the dependency is resolved: its error is the response, a resolver called
\* on its own returns the user, a handler goes on with its body
Depends(t, req) ==
    LET r == get_current_admin_user(Dependency(req.op), req.user)
    IN  IF req.op \in Resolvers \/ r.status # 200
        THEN Done(t, req, r)
        ELSE Goto(t, [req EXCEPT !.pc = "body"])

\* variant: the token_type of the payload is not looked at
oauth2_scheme_any_type(t, request, token) ==
    /\ IsIdle(t)
    /\ \E cached_user \in cache_get(cache_key(token), now) :
          LET req == [request EXCEPT !.at = now, !.tok = token,
                                     !.calls = <<"cache.get">>]
              dec == [req EXCEPT !.calls = Append(req.calls, "jwt.decode")]
              d == jwt_decode(token, now)
          IN  IF cached_user # Miss
              THEN Begin(t, [req EXCEPT !.pc = "merge", !.cached = TRUE,
                                        !.user = parse_datetime_fields(cached_user)])
              ELSE IF ~d.ok \/ d.payload.sub = None
              THEN Done(t, dec, credentials_exception)
              ELSE Begin(t, [dec EXCEPT !.pc = "lookup"])
    /\ UNCHANGED <<users, next_user_id, refresh_tokens, next_token_id, cache,
                   now, ticks, background, mailbox, known, spent,
                   contacts, next_contact_id>>

\* the cache lookup and, on a miss, the decoding of the token, for a request
\* that carries the bearer token
oauth2_scheme(t, request, token) ==
    /\ IsIdle(t)
    /\ \E cached_user \in cache_get(cache_key(token), now) :
          LET req == [request EXCEPT !.at = now, !.tok = token,
                                     !.calls = <<"cache.get">>]
              dec == [req EXCEPT !.calls = Append(req.calls, "jwt.decode")]
              d == jwt_decode(token, now)
          IN  IF cached_user # Miss
              THEN Begin(t, [req EXCEPT !.pc = "merge", !.cached = TRUE,
                                        !.user = parse_datetime_fields(cached_user)])
              ELSE IF ~d.ok \/ d.payload.sub = None \/ d.payload.typ # "access"
              THEN Done(t, dec, credentials_exception)
              ELSE Begin(t, [dec EXCEPT !.pc = "lookup"])
    /\ UNCHANGED <<users, next_user_id, refresh_tokens, next_token_id, cache,
                   now, ticks, background, mailbox, known, spent,
                   contacts, next_contact_id>>

get_current_user(t, op, token) ==
    oauth2_scheme(t, [Idle EXCEPT !.op = op], token)

\* db.merge(user): the cached state is copied onto the session's instance
get_current_user_merge(t) ==
    /\ task[t].pc = "merge"
    /\ Depends(t, [task[t] EXCEPT !.calls = Append(@, "db.merge"),
                                   !.dirty = merge(task[t].user)])
    /\ UNCHANGED <<users, next_user_id, refresh_tokens, next_token_id, cache,
                   now, ticks, background, mailbox, known, spent,
                   contacts, next_contact_id>>

\* the lookup by the decoded username
get_current_user_lookup(t) ==
    /\ task[t].pc = "lookup"
    /\ LET user == get_user_by_username(task[t].tok.sub)
           req == [task[t] EXCEPT !.calls = Append(@, "get_user_by_username")]
       IN  IF user = NoUser
           THEN Done(t, req, credentials_exception)
           ELSE Goto(t, [req EXCEPT !.pc = "cache_set", !.user = user])
    /\ UNCHANGED <<users, next_user_id, refresh_tokens, next_token_id, cache,
                   now, ticks, background, mailbox, known, spent,
                   contacts, next_contact_id>>

\* the cache write, then the user is returned
get_current_user_cache_set(t) ==
    /\ task[t].pc = "cache_set"
    /\ cache' = cache_set(cache_key(task[t].tok), to_dict(task[t].user), now)
    /\ Depends(t, [task[t] EXCEPT !.calls = Append(@, "cache.set")])
    /\ UNCHANGED <<users, next_user_id, refresh_tokens, next_token_id,
                   now, ticks, background, mailbox, known, spent,
                   contacts, next_contact_id>>

(***************************************************************************)
(* PATCH /users/{user_id}/role (api/users.py).                              *)
(***************************************************************************)
\* the request: the admin dependency runs first
update_user_role(t, token, user_id, role) ==
    oauth2_scheme(t, [Idle EXCEPT !.op = "update_user_role", !.id = user_id,
                                  !.body = [NoBody EXCEPT !.role = role]], token)

\* the handler's body: the user is looked up by id; UserService has no method
\* update_user_role, so the call that should store the role raises
\* AttributeError before any statement reaches the database
update_user_role_get_user_by_id(t) ==
    /\ At(t, "update_user_role", "body")
    /\ LET user == get_user_by_id(task[t].id)
           req == [task[t] EXCEPT !.calls = Append(@, "get_user_by_id")]
       IN  IF user = NoUser
           THEN Done(t, req, HTTPException(404, "User not found"))
           ELSE Done(t, [req EXCEPT !.user = user], ServerError("AttributeError"))
    /\ UNCHANGED <<users, next_user_id, refresh_tokens, next_token_id, cache,
                   now, ticks, background, mailbox, known, spent,
                   contacts, next_contact_id>>

(***************************************************************************)
(* PATCH /users/avatar (api/users.py).                                      *)
(***************************************************************************)
\* UploadFileService.upload_file: the URL Cloudinary builds for the upload
upload_file(file, username) == file

\* the request: the admin dependency runs first
update_avatar_user(t, token, file) ==
    oauth2_scheme(t, [Idle EXCEPT !.op = "update_avatar_user", !.file = file], token)

\* the upload, then UserRepository.update_avatar_url: get_user_by_email
update_avatar_user_get_user_by_email(t) ==
    /\ At(t, "update_avatar_user", "body")
    /\ LET avatar_url == upload_file(task[t].file, task[t].user.username)
           user == get_user_by_email(task[t].user.email)
       IN  IF user = NoUser
           THEN Done(t, task[t], ServerError("AttributeError"))
           ELSE Goto(t, [task[t] EXCEPT !.pc = "commit", !.row = user.id,
                                        !.file = avatar_url])
    /\ UNCHANGED <<users, next_user_id, refresh_tokens, next_token_id, cache,
                   now, ticks, background, mailbox, known, spent,
                   contacts, next_contact_id>>

\* variant: the commit drops the cache entries of the user
update_avatar_user_commit_invalidating(t) ==
    /\ At(t, "update_avatar_user", "commit")
    /\ users' = {IF u.id = task[t].row THEN [u EXCEPT !.avatar = task[t].file] ELSE u :
                   u \in flush(t, users)}
    /\ cache' = {e \in cache : e.value.id # task[t].row}
    /\ Goto(t, [task[t] EXCEPT !.pc = "refresh", !.dirty = {}])
    /\ UNCHANGED <<next_user_id, refresh_tokens, next_token_id,
                   now, ticks, background, mailbox, known, spent,
                   contacts, next_contact_id>>

\* user.avatar = url, commit: the pending state of the session is flushed
update_avatar_user_commit(t) ==
    /\ At(t, "update_avatar_user", "commit")
    /\ users' = {IF u.id = task[t].row THEN [u EXCEPT !.avatar = task[t].file] ELSE u :
                   u \in flush(t, users)}
    /\ Goto(t, [task[t] EXCEPT !.pc = "refresh", !.dirty = {}])
    /\ UNCHANGED <<next_user_id, refresh_tokens, next_token_id, cache,
                   now, ticks, background, mailbox, known, spent,
                   contacts, next_contact_id>>

\* db.refresh(user); the handler returns the user
update_avatar_user_refresh(t) ==
    /\ At(t, "update_avatar_user", "refresh")
    /\ LET user == get_user_by_id(task[t].row)
       IN  Done(t, [task[t] EXCEPT !.user = user], UserResponse(user))
    /\ UNCHANGED <<users, next_user_id, refresh_tokens, next_token_id, cache,
                   now, ticks, background, mailbox, known, spent,
                   contacts, next_contact_id>>

(***************************************************************************)
(* Contacts (repository/contacts.py, services/contacts.py, api/contacts.py).*)
(* A contact carries first_name, email and birthday; last_name and phone    *)
(* are stored and searched the way first_name is.                           *)
(***************************************************************************)
\* variant: the statement is not restricted to the user's rows
filter_by_any_user(rows, user) == rows

\* .filter_by(user=user): the rows whose user_id is the user's primary key
filter_by_user(rows, user) == {c \in rows : c.user_id = user.id}

get_contact_by_id(contact_id, user) ==
    scalar_one_or_none({c \in filter_by_user(contacts, user) : c.id = contact_id},
                       NoContact)

\* the row with this primary key (db.refresh, UPDATE and DELETE by id)
contact_row(contact_id) ==
    scalar_one_or_none({c \in contacts : c.id = contact_id}, NoContact)

Lowercase == [A |-> "a", B |-> "b", C |-> "c", D |-> "d", E |-> "e", F |-> "f",
              G |-> "g", H |-> "h", I |-> "i", J |-> "j", K |-> "k", L |-> "l",
              M |-> "m", N |-> "n", O |-> "o", P |-> "p", Q |-> "q", R |-> "r",
              S |-> "s", T |-> "t", U |-> "u", V |-> "v", W |-> "w", X |-> "x",
              Y |-> "y", Z |-> "z"]

lower(str) ==
    [i \in 1..Len(str) |->
        IF str[i] \in DOMAIN Lowercase THEN Lowercase[str[i]] ELSE str[i]]

\* column.ilike("%" + value + "%"): NULL matches nothing
ilike(column, value) ==
    /\ column # NoStr
    /\ \E i \in 1..(Len(column) - Len(value) + 1) :
          \A j \in 1..Len(value) : lower(column)[i + j - 1] = lower(value)[j]

\* date.timetuple().tm_yday and extract("doy", ...), for the dates of 1970
\* and 1971 (years of 365 days)
tm_yday(date) == (date % 365) + 1

\* the orders in which a statement can return its rows: by the key (a
\* function of the row) it orders
\* them by; rows with equal keys, and rows of a statement without ORDER BY,
\* come in any order
Orders(rows, key) ==
    LET n == Cardinality(rows)
    IN  {SubSeq(s, 1, n) : s \in {f \in [1..n -> rows] :
            /\ \A i, j \in 1..n : i # j => f[i] # f[j]
            /\ \A i \in 1..(n - 1) : key[f[i]] <= key[f[i + 1]]}}

Min(a, b) == IF a <= b THEN a ELSE b

\* .offset(skip).limit(limit)
offset_limit(rows, skip, limit) == SubSeq(rows, skip + 1, Min(Len(rows), skip + limit))

ContactResponse(status_code, contact) ==
    [NoResp EXCEPT !.status = status_code, !.contact = contact]

ContactList(rows) == [NoResp EXCEPT !.status = 200, !.contacts = rows]

\* unique_email_user: another row of the user holds the email (NULLs never
\* conflict)
unique_email_user(contact) ==
    \E c \in contacts : /\ c.id # contact.id
                        /\ c.user_id = contact.user_id
                        /\ c.email = contact.email
                        /\ c.email # NoStr

\* _handle_integrity_error for the constraint unique_email_user
contact_conflict == HTTPException(409, "Contact with such email already exists")

\* the requests: the dependency get_current_user runs first
read_contacts(t, token, skip, limit) ==
    oauth2_scheme(t, [Idle EXCEPT !.op = "read_contacts",
                                  !.query = [NoQuery EXCEPT !.skip = skip, !.limit = limit]],
                  token)

read_contact(t, token, contact_id) ==
    oauth2_scheme(t, [Idle EXCEPT !.op = "read_contact", !.id = contact_id], token)

create_contact(t, token, body) ==
    /\ next_contact_id <= MaxContacts
    /\ oauth2_scheme(t, [Idle EXCEPT !.op = "create_contact", !.contact = body], token)

update_contact(t, token, contact_id, body) ==
    oauth2_scheme(t, [Idle EXCEPT !.op = "update_contact", !.id = contact_id,
                                  !.contact = body], token)

remove_contact(t, token, contact_id) ==
    oauth2_scheme(t, [Idle EXCEPT !.op = "remove_contact", !.id = contact_id], token)

search_contacts(t, token, skip, limit, first_name, email) ==
    oauth2_scheme(t, [Idle EXCEPT !.op = "search_contacts",
                                  !.query = [NoQuery EXCEPT !.skip = skip, !.limit = limit,
                                                            !.first_name = first_name,
                                                            !.email = email]],
                  token)

get_upcoming_birthdays(t, token, days, skip, limit) ==
    oauth2_scheme(t, [Idle EXCEPT !.op = "get_upcoming_birthdays",
                                  !.query = [NoQuery EXCEPT !.skip = skip, !.limit = limit,
                                                            !.days = days]],
                  token)

\* ContactRepository.get_contacts
read_contacts_execute(t) ==
    /\ At(t, "read_contacts", "body")
    /\ \E rows \in Orders(filter_by_user(contacts, task[t].user), [c \in contacts |-> 0]) :
          Done(t, task[t],
               ContactList(offset_limit(rows, task[t].query.skip, task[t].query.limit)))
    /\ UNCHANGED <<users, next_user_id, refresh_tokens, next_token_id, cache,
                   now, ticks, background, mailbox, known, spent,
                   contacts, next_contact_id>>

\* ContactRepository.get_contact_by_id, then the handler's 404
read_contact_execute(t) ==
    /\ At(t, "read_contact", "body")
    /\ LET contact == get_contact_by_id(task[t].id, task[t].user)
       IN  IF contact = NoContact
           THEN Done(t, task[t], HTTPException(404, "Contact not found"))
           ELSE Done(t, task[t], ContactResponse(200, contact))
    /\ UNCHANGED <<users, next_user_id, refresh_tokens, next_token_id, cache,
                   now, ticks, background, mailbox, known, spent,
                   contacts, next_contact_id>>

\* ContactRepository.create_contact: Contact(**body, user=user), add, commit;
\* the sequence of contacts.id advances also when the insert fails
create_contact_commit(t) ==
    /\ At(t, "create_contact", "body")
    /\ LET contact == [task[t].contact EXCEPT !.id = next_contact_id,
                                             !.user_id = task[t].user.id]
       IN  /\ next_contact_id' = next_contact_id + 1
           /\ IF unique_email_user(contact)
              THEN /\ Done(t, task[t], contact_conflict)
                   /\ UNCHANGED <<users, contacts>>
              ELSE /\ users' = flush(t, users)
                   /\ contacts' = contacts \cup {contact}
                   /\ Goto(t, [task[t] EXCEPT !.pc = "refresh", !.contact = contact,
                                              !.dirty = {}])
    /\ UNCHANGED <<next_user_id, refresh_tokens, next_token_id, cache,
                   now, ticks, background, mailbox, known, spent>>

\* db.refresh(contact) of create_contact and of update_contact
contact_refresh(t) ==
    /\ task[t].op \in {"create_contact", "update_contact"} /\ task[t].pc = "refresh"
    /\ LET contact == contact_row(task[t].contact.id)
       IN  IF contact = NoContact
           THEN Done(t, task[t], ServerError("InvalidRequestError"))
           ELSE IF task[t].op = "update_contact"
           THEN Done(t, [task[t] EXCEPT !.contact = contact], ContactResponse(200, contact))
           ELSE Goto(t, [task[t] EXCEPT !.pc = "select", !.contact = contact])
    /\ UNCHANGED <<users, next_user_id, refresh_tokens, next_token_id, cache,
                   now, ticks, background, mailbox, known, spent,
                   contacts, next_contact_id>>

\* return await self.get_contact_by_id(contact.id, user)
create_contact_select(t) ==
    /\ At(t, "create_contact", "select")
    /\ LET contact == get_contact_by_id(task[t].contact.id, task[t].user)
       IN  IF contact = NoContact
           THEN Done(t, task[t], ServerError("ResponseValidationError"))
           ELSE Done(t, task[t], ContactResponse(201, contact))
    /\ UNCHANGED <<users, next_user_id, refresh_tokens, next_token_id, cache,
                   now, ticks, background, mailbox, known, spent,
                   contacts, next_contact_id>>

\* get_contact_by_id of update_contact and of remove_contact, then the
\* handler's 404
contact_select(t) ==
    /\ task[t].op \in {"update_contact", "remove_contact"} /\ task[t].pc = "body"
    /\ LET contact == get_contact_by_id(task[t].id, task[t].user)
       IN  IF contact = NoContact
           THEN Done(t, task[t], HTTPException(404, "Contact not found"))
           ELSE IF task[t].op = "update_contact"
           THEN Goto(t, [task[t] EXCEPT !.pc = "commit", !.row = contact.id])
           ELSE Goto(t, [task[t] EXCEPT !.pc = "commit", !.row = contact.id,
                                        !.contact = contact])
    /\ UNCHANGED <<users, next_user_id, refresh_tokens, next_token_id, cache,
                   now, ticks, background, mailbox, known, spent,
                   contacts, next_contact_id>>

\* ContactRepository.update_contact: setattr for every field of the body, commit
update_contact_commit(t) ==
    /\ At(t, "update_contact", "commit")
    /\ LET old == contact_row(task[t].row)
           contact == [task[t].contact EXCEPT !.id = old.id, !.user_id = old.user_id]
       IN  IF old = NoContact
           THEN /\ Done(t, task[t], ServerError("StaleDataError"))
                /\ UNCHANGED <<users, contacts>>
           ELSE IF unique_email_user(contact)
           THEN /\ Done(t, task[t], contact_conflict)
                /\ UNCHANGED <<users, contacts>>
           ELSE /\ users' = flush(t, users)
                /\ contacts' = (contacts \ {old}) \cup {contact}
                /\ Goto(t, [task[t] EXCEPT !.pc = "refresh", !.contact = contact,
                                           !.dirty = {}])
    /\ UNCHANGED <<next_user_id, refresh_tokens, next_token_id, cache,
                   now, ticks, background, mailbox, known, spent, next_contact_id>>

\* ContactRepository.remove_contact: delete, commit; the deleted contact is
\* the response
remove_contact_commit(t) ==
    /\ At(t, "remove_contact", "commit")
    /\ users' = flush(t, users)
    /\ contacts' = {c \in contacts : c.id # task[t].row}
    /\ Done(t, [task[t] EXCEPT !.dirty = {}], ContactResponse(200, task[t].contact))
    /\ UNCHANGED <<next_user_id, refresh_tokens, next_token_id, cache,
                   now, ticks, background, mailbox, known, spent, next_contact_id>>

\* ContactRepository.search_contacts
search_contacts_execute(t) ==
    /\ At(t, "search_contacts", "body")
    /\ LET q == task[t].query
           found == {c \in contacts :
                       /\ q.first_name \notin {NoStr, <<>>} => ilike(c.first_name, q.first_name)
                       /\ q.email \notin {NoStr, <<>>} => ilike(c.email, q.email)}
       IN  \E rows \in Orders(filter_by_user(found, task[t].user), [c \in contacts |-> 0]) :
              Done(t, task[t], ContactList(offset_limit(rows, q.skip, q.limit)))
    /\ UNCHANGED <<users, next_user_id, refresh_tokens, next_token_id, cache,
                   now, ticks, background, mailbox, known, spent,
                   contacts, next_contact_id>>

\* ContactService.get_upcoming_birthdays, ContactRepository.get_upcoming_birthdays
get_upcoming_birthdays_execute(t) ==
    /\ At(t, "get_upcoming_birthdays", "body")
    /\ LET q == task[t].query
           today == now \div 86400
           next_date == today + q.days
           start_day_of_year == tm_yday(today)
           end_day_of_year == tm_yday(next_date)
           doy(c) == tm_yday(c.birthday)
           found == {c \in filter_by_user(contacts, task[t].user) :
                       /\ c.birthday # NoDate
                       /\ IF start_day_of_year <= end_day_of_year
                          THEN doy(c) >= start_day_of_year /\ doy(c) <= end_day_of_year
                          ELSE doy(c) >= start_day_of_year \/ doy(c) <= end_day_of_year}
       IN  \E rows \in Orders(found, [c \in found |-> doy(c)]) :
              Done(t, task[t], ContactList(offset_limit(rows, q.skip, q.limit)))
    /\ UNCHANGED <<users, next_user_id, refresh_tokens, next_token_id, cache,
                   now, ticks, background, mailbox, known, spent,
                   contacts, next_contact_id>>

(***************************************************************************)
(* The client takes the response; the task is free for the next request.    *)
(***************************************************************************)
Return(t) ==
    /\ task[t].pc = "done"
    /\ known' = known \cup ({task[t].resp.access_token, task[t].resp.refresh_token} \ {NoToken})
    /\ task' = [task EXCEPT ![t] = Idle]
    /\ UNCHANGED <<users, next_user_id, refresh_tokens, next_token_id, cache,
                   now, ticks, background, mailbox, spent,
                   contacts, next_contact_id>>

(***************************************************************************)
(* The clock; Redis drops the entries whose time to live has run out.       *)
(***************************************************************************)
Tick(d) ==
    /\ ticks < MaxTicks
    /\ now' = now + d
    /\ ticks' = ticks + 1
    /\ cache' = {e \in cache : now' <= e.set_at + CACHE_EX}
    /\ UNCHANGED <<users, next_user_id, refresh_tokens, next_token_id, task,
                   background, mailbox, known, spent,
                   contacts, next_contact_id>>

(***************************************************************************)
(* The database the test suite starts from (three users, no tokens).        *)
(***************************************************************************)
SeedUser(id, username, email, password, role, confirmed) ==
    [id |-> id, username |-> username, email |-> email,
     hashed_password |-> get_password_hash(password), confirmed |-> confirmed,
     role |-> role, avatar |-> "gravatar", created_at |-> 0]

SeedUsers ==
    {SeedUser(1, "deadpool", "deadpool@example.com", "Password123!", USER, TRUE),
     SeedUser(2, "adminuser", "admin@example.com", "AdminPassword123!", ADMIN, TRUE),
     SeedUser(3, "notconfirmed", "notconfirmed@example.com", "NotPassword123!", USER, FALSE)}

InitAuth ==
    /\ users = SeedUsers
    /\ next_user_id = 4
    /\ refresh_tokens = {}
    /\ next_token_id = 1
    /\ cache = {}
    /\ now = 0
    /\ ticks = 0
    /\ task = [t \in Tasks |-> Idle]
    /\ background = <<>>
    /\ mailbox = {}
    /\ known = {}
    /\ spent = {}
    /\ contacts = {}
    /\ next_contact_id = 1

(***************************************************************************)
(* SpecAuth: login and refresh, one request at a time, with the clock.      *)
(***************************************************************************)
Serial == {"t1"}

Login(t) ==
    \/ \E username \in Usernames, password \in Passwords : login_user(t, username, password)
    \/ login_user_insert(t)

Refresh(t) ==
    \/ \E tok \in Presentable : new_token(t, tok)
    \/ new_token_select(t)
    \/ new_token_commit(t)

Resolve(t) ==
    \/ \E op \in Resolvers, tok \in Presentable \cup {SomeEmailToken} :
          get_current_user(t, op, tok)
    \/ get_current_user_merge(t)
    \/ get_current_user_lookup(t)
    \/ get_current_user_cache_set(t)

AuthTicks == {1, timedelta_minutes(REFRESH_TOKEN_EXPIRATION_SECONDS)}

NextAuth ==
    \/ \E t \in Serial : Login(t) \/ Refresh(t) \/ Return(t)
    \/ \E d \in AuthTicks : Tick(d)

SpecAuth == InitAuth /\ [][NextAuth]_vars

(***************************************************************************)
(* SpecResolve: login and the resolution of the current user through the    *)
(* identity cache, one request at a time, with the clock.                   *)
(***************************************************************************)
ResolveTicks == {1, ACCESS_TOKEN_EXPIRATION_SECONDS}

NextResolve ==
    \/ \E t \in Serial : Login(t) \/ Resolve(t) \/ Return(t)
    \/ \E d \in ResolveTicks : Tick(d)

SpecResolve == InitAuth /\ [][NextResolve]_vars

(***************************************************************************)
(* SpecRole: login and the role update, one request at a time.              *)
(***************************************************************************)
UserIds == 1..(MaxUsers + 2)

UpdateUserRole(t) ==
    \/ \E tok \in Presentable, user_id \in UserIds, role \in UserRole :
          update_user_role(t, tok, user_id, role)
    \/ get_current_user_merge(t)
    \/ get_current_user_lookup(t)
    \/ get_current_user_cache_set(t)
    \/ update_user_role_get_user_by_id(t)

RoleTicks == {1}

NextRole ==
    \/ \E t \in Serial : Login(t) \/ UpdateUserRole(t) \/ Return(t)
    \/ \E d \in RoleTicks : Tick(d)

SpecRole == InitAuth /\ [][NextRole]_vars

(***************************************************************************)
(* SpecContacts: two users log in and work on their contacts, one request   *)
(* at a time.                                                               *)
(***************************************************************************)
ContactBodies ==
    {[NoContact EXCEPT !.first_name = <<"W", "a">>, !.email = <<"w", "@">>,
                       !.birthday = 2],
     [NoContact EXCEPT !.first_name = <<"L", "o">>]}

ContactIds == 1..(MaxContacts + 1)
\* skip and limit
Pages == {<<0, 10>>, <<1, 1>>}
\* first_name and email
Searches == {<<NoStr, NoStr>>, <<<<"w">>, NoStr>>, <<NoStr, <<"w">>>>}
Days == {7}

\* the access tokens the two users got, and one of nobody
Bearers == {tok \in known : tok.typ = "access"} \cup {SomeEmailToken}

ContactLogin(t) ==
    \/ login_user(t, "deadpool", "Password123!")
    \/ login_user(t, "adminuser", "AdminPassword123!")
    \/ login_user_insert(t)

Contacts(t) ==
    \/ \E tok \in Bearers :
          \/ \E page \in Pages :
                \/ read_contacts(t, tok, page[1], page[2])
                \/ \E search \in Searches :
                      search_contacts(t, tok, page[1], page[2], search[1], search[2])
                \/ \E days \in Days :
                      get_upcoming_birthdays(t, tok, days, page[1], page[2])
          \/ \E contact_id \in ContactIds :
                \/ read_contact(t, tok, contact_id)
                \/ remove_contact(t, tok, contact_id)
                \/ \E body \in ContactBodies : update_contact(t, tok, contact_id, body)
          \/ \E body \in ContactBodies : create_contact(t, tok, body)
    \/ get_current_user_merge(t)
    \/ get_current_user_lookup(t)
    \/ get_current_user_cache_set(t)
    \/ read_contacts_execute(t)
    \/ read_contact_execute(t)
    \/ create_contact_commit(t)
    \/ contact_refresh(t)
    \/ create_contact_select(t)
    \/ contact_select(t)
    \/ update_contact_commit(t)
    \/ remove_contact_commit(t)
    \/ search_contacts_execute(t)
    \/ get_upcoming_birthdays_execute(t)

NextContacts ==
    \E t \in Serial : ContactLogin(t) \/ Contacts(t) \/ Return(t)

SpecContacts == InitAuth /\ [][NextContacts]_vars

(***************************************************************************)
(* SpecRace: logins and refreshes of one user in two concurrent tasks.       *)
(***************************************************************************)
RaceTicks == {1}

NextRace ==
    \/ \E t \in Tasks : \/ login_user(t, "deadpool", "Password123!")
                        \/ login_user_insert(t)
                        \/ Refresh(t)
                        \/ Return(t)
    \/ \E d \in RaceTicks : Tick(d)

SpecRace == InitAuth /\ [][NextRace]_vars

(***************************************************************************)
(* SpecRegister: registrations of two concurrent tasks on an empty          *)
(* database, and the delivery of the confirmation emails.                   *)
(***************************************************************************)
InitRegister ==
    /\ users = {}
    /\ next_user_id = 1
    /\ refresh_tokens = {}
    /\ next_token_id = 1
    /\ cache = {}
    /\ now = 0
    /\ ticks = 0
    /\ task = [t \in Tasks |-> Idle]
    /\ background = <<>>
    /\ mailbox = {}
    /\ known = {}
    /\ spent = {}
    /\ contacts = {}
    /\ next_contact_id = 1

RegUsernames == {"testuser", "deadpool"}
RegEmails == {"testuser@example.com", "deadpool@example.com"}
RegRoles == {USER, ADMIN, None}

Bodies == [username : RegUsernames, email : RegEmails, password : {"Password123!"},
           role : RegRoles]

Register(t) ==
    \/ \E body \in Bodies : register_user(t, body)
    \/ register_user_username(t)
    \/ register_user_insert(t)

NextRegister ==
    \/ \E t \in Tasks : Register(t) \/ Return(t)
    \/ \E delivered \in BOOLEAN : send_email(delivered)

SpecRegister == InitRegister /\ [][NextRegister]_vars

(***************************************************************************)
(* SpecGate: registration, the confirmation email, confirmation and login,  *)
(* one request at a time on an empty database, with the clock.              *)
(***************************************************************************)
\* the background tasks of a request have run (they run when its response
\* has been sent, before the client of a serial run sends its next request)
Sent == background = <<>>

SerialReturn(t) == Sent /\ Return(t)

ConfirmBodies == [username : RegUsernames, email : RegEmails,
                  password : {"Password123!"}, role : {USER, None}]
ConfirmPasswords == {"Password123!", "WrongPassword123!"}

ConfirmRegister(t) ==
    \/ \E body \in ConfirmBodies : register_user(t, body)
    \/ register_user_username(t)
    \/ register_user_insert(t)

ConfirmLogin(t) ==
    \/ \E username \in RegUsernames, password \in ConfirmPasswords :
          login_user(t, username, password)
    \/ login_user_insert(t)

Confirm(t) ==
    \/ \E tok \in Presentable : confirmed_email(t, tok)
    \/ confirmed_email_commit(t)

GateTicks == {1}

NextGate ==
    \/ \E t \in Serial : \/ ConfirmRegister(t)
                         \/ ConfirmLogin(t)
                         \/ \E email \in RegEmails : request_email(t, email)
                         \/ Confirm(t)
                         \/ SerialReturn(t)
    \/ \E delivered \in BOOLEAN : send_email(delivered)
    \/ \E d \in GateTicks : Tick(d)

SpecGate == InitRegister /\ [][NextGate]_vars

(***************************************************************************)
(* SpecConfirm: registration, the confirmation and reset emails and          *)
(* confirmation, one request at a time on an empty database, with the        *)
(* clock.                                                                    *)
(***************************************************************************)
ConfirmByMail(t) ==
    \/ \E tok \in Presentable \cup {SomeEmailToken} : confirmed_email(t, tok)
    \/ confirmed_email_commit(t)

\* the clock passes the lifetime of an email token
MailTicks == {timedelta_days(EMAIL_TOKEN_DAYS) + 1}

NextConfirm ==
    \/ \E t \in Serial : \/ ConfirmRegister(t)
                         \/ \E email \in RegEmails : request_email(t, email)
                         \/ \E email \in RegEmails : reset_password_request(t, email)
                         \/ ConfirmByMail(t)
                         \/ SerialReturn(t)
    \/ \E delivered \in BOOLEAN : send_email(delivered)
    \/ \E d \in MailTicks : Tick(d)

SpecConfirm == InitRegister /\ [][NextConfirm]_vars

(***************************************************************************)
(* SpecReset: the reset and confirmation emails, password reset and login   *)
(* of the seeded users, one request at a time, with the clock.              *)
(***************************************************************************)
ResetEmails == {"deadpool@example.com", "notconfirmed@example.com", "unknown@example.com"}
ResetUsernames == {"deadpool", "notconfirmed"}
ResetPasswords == {"Password123!", "NotPassword123!", "NewPassword123!"}
NewPasswords == {"NewPassword123!", "Password123!", None}

ResetPassword(t) ==
    \/ \E tok \in Presentable \cup {NoToken}, new_password \in NewPasswords :
          reset_password(t, tok, new_password)
    \/ reset_password_commit(t)

ResetLogin(t) ==
    \/ \E username \in ResetUsernames, password \in ResetPasswords :
          login_user(t, username, password)
    \/ login_user_insert(t)

NextReset ==
    \/ \E t \in Serial : \/ ResetLogin(t)
                         \/ \E email \in ResetEmails : request_email(t, email)
                         \/ \E email \in ResetEmails : reset_password_request(t, email)
                         \/ ResetPassword(t)
                         \/ SerialReturn(t)
    \/ \E delivered \in BOOLEAN : send_email(delivered)
    \/ \E d \in MailTicks : Tick(d)

SpecReset == InitAuth /\ [][NextReset]_vars

(***************************************************************************)
(* SpecMail: the confirmation and reset mails of the seeded users, and the  *)
(* three handlers that take a mailed token, one request at a time, with the *)
(* clock.                                                                   *)
(***************************************************************************)
MailHandlers(t) ==
    \/ \E email \in ResetEmails : request_email(t, email)
    \/ \E email \in ResetEmails : reset_password_request(t, email)
    \/ \E tok \in Presentable :
          \/ confirmed_email(t, tok)
          \/ reset_password_form(t, tok)
          \/ reset_password(t, tok, "NewPassword123!")
    \/ confirmed_email_commit(t)
    \/ reset_password_commit(t)

NextMail ==
    \/ \E t \in Serial : MailHandlers(t) \/ SerialReturn(t)
    \/ \E delivered \in BOOLEAN : send_email(delivered)
    \/ \E d \in MailTicks : Tick(d)

SpecMail == InitAuth /\ [][NextMail]_vars

(***************************************************************************)
(* SpecPurpose: a user holds access tokens, refresh tokens and one mailed   *)
(* token and presents each of them as bearer token and to the refresh, one  *)
(* request at a time, with the clock.                                       *)
(***************************************************************************)
MailTokens == {m.token : m \in mailbox}
Held == known \cup MailTokens

Purpose(t) ==
    \/ login_user(t, "deadpool", "Password123!")
    \/ login_user_insert(t)
    \/ /\ mailbox = {} /\ background = <<>>
       /\ reset_password_request(t, "deadpool@example.com")
    \/ \E tok \in Held :
          \/ \E op \in Resolvers : get_current_user(t, op, tok)
          \/ new_token(t, tok)
    \/ get_current_user_merge(t)
    \/ get_current_user_lookup(t)
    \/ get_current_user_cache_set(t)
    \/ new_token_select(t)
    \/ new_token_commit(t)

PurposeTicks == {1}

NextPurpose ==
    \/ \E t \in Serial : Purpose(t) \/ SerialReturn(t)
    \/ send_email(TRUE)
    \/ \E d \in PurposeTicks : Tick(d)

SpecPurpose == InitAuth /\ [][NextPurpose]_vars

(***************************************************************************)
(* SpecResolveRace: a user logs in and the access token is resolved in two  *)
(* concurrent tasks, with the clock.                                        *)
(***************************************************************************)
ResolveRace(t) ==
    \/ refresh_tokens = {} /\ login_user(t, "deadpool", "Password123!")
    \/ login_user_insert(t)
    \/ \E tok \in {k \in known : k.typ = "access"} :
          get_current_user(t, "get_current_user", tok)
    \/ get_current_user_merge(t)
    \/ get_current_user_lookup(t)
    \/ get_current_user_cache_set(t)
    \/ Return(t)

NextResolveRace ==
    \/ \E t \in Tasks : ResolveRace(t)
    \/ \E d \in ResolveTicks : Tick(d)

SpecResolveRace == InitAuth /\ [][NextResolveRace]_vars

(***************************************************************************)
(* SpecRepository: two users log in and refresh, and                        *)
(* update_refresh_token is called with every pair of a refresh token string *)
(* and a user id, one call at a time, with the clock.                       *)
(***************************************************************************)
RepositoryUserIds == {u.id : u \in users}

\* the refresh token strings handed out, and one that was never stored
OldRefreshTokens ==
    {k \in known : k.typ = "refresh"} \cup {jwt_encode("deadpool", 0, 1, "refresh")}

Repository(t) ==
    \/ login_user(t, "deadpool", "Password123!")
    \/ login_user(t, "adminuser", "AdminPassword123!")
    \/ login_user_insert(t)
    \/ \E tok \in OldRefreshTokens : new_token(t, tok)
    \/ new_token_select(t)
    \/ new_token_commit(t)
    \/ \E tok \in OldRefreshTokens, user_id \in RepositoryUserIds :
          update_refresh_token(t, tok,
              refresh_token_dto(get_user_by_id(user_id).username, now), user_id)
    \/ update_refresh_token_commit(t)

NextRepository ==
    \/ \E t \in Serial : Repository(t) \/ Return(t)
    \/ \E d \in RaceTicks : Tick(d)

SpecRepository == InitAuth /\ [][NextRepository]_vars

(***************************************************************************)
(* SpecCache: the admin logs in once, reads and changes the account and     *)
(* refreshes; one mail is asked for, and its token confirms the email and   *)
(* resets the password; one request at a time, with the clock and the       *)
(* identity cache.                                                          *)
(***************************************************************************)
Files == {"RestApp/adminuser?v=1"}
CacheEmails == {"admin@example.com", "notconfirmed@example.com"}
CachePasswords == {"NewPassword123!"}

\* the access tokens and the mailed tokens a client holds
CacheBearers == {tok \in known : tok.typ = "access"}

Account(t) ==
    \/ refresh_tokens = {} /\ login_user(t, "adminuser", "AdminPassword123!")
    \/ login_user_insert(t)
    \/ \E tok \in {k \in known : k.typ = "refresh"} : new_token(t, tok)
    \/ new_token_select(t)
    \/ new_token_commit(t)
    \/ \E tok \in CacheBearers :
          \/ get_current_user(t, "get_current_user", tok)
          \/ \E file \in Files : update_avatar_user(t, tok, file)
          \/ update_user_role(t, tok, 1, ADMIN)
    \/ get_current_user_merge(t)
    \/ get_current_user_lookup(t)
    \/ get_current_user_cache_set(t)
    \/ update_avatar_user_get_user_by_email(t)
    \/ update_avatar_user_commit(t)
    \/ update_avatar_user_refresh(t)
    \/ update_user_role_get_user_by_id(t)
    \/ \E email \in CacheEmails :
          mailbox = {} /\ background = <<>> /\ request_email(t, email)
    \/ \E tok \in MailTokens, new_password \in CachePasswords :
          reset_password(t, tok, new_password)
    \/ reset_password_commit(t)
    \/ \E tok \in MailTokens : confirmed_email(t, tok)
    \/ confirmed_email_commit(t)

CacheTicks == {1, CACHE_EX}

NextCache ==
    \/ \E t \in Serial : Account(t) \/ SerialReturn(t)
    \/ send_email(TRUE)
    \/ \E d \in CacheTicks : Tick(d)

SpecCache == InitAuth /\ [][NextCache]_vars

(***************************************************************************)
(* SpecSession: one of the admin and the unconfirmed user logs in once,     *)
(* refreshes, and                                                           *)
(* sends requests that resolve the current user and requests that commit    *)
(* the request's database session (a new contact, a new avatar); one mail   *)
(* is asked for, and its token confirms the email and resets the password;  *)
(* one request at a time, with the clock and the identity cache.            *)
(***************************************************************************)
SessionBodies == {[NoContact EXCEPT !.first_name = <<"L", "o">>]}

Session(t) ==
    \/ /\ refresh_tokens = {}
       /\ \/ login_user(t, "adminuser", "AdminPassword123!")
          \/ login_user(t, "notconfirmed", "NotPassword123!")
    \/ login_user_insert(t)
    \/ \E tok \in {k \in known : k.typ = "refresh"} : new_token(t, tok)
    \/ new_token_select(t)
    \/ new_token_commit(t)
    \/ \E tok \in CacheBearers :
          \/ get_current_user(t, "get_current_user", tok)
          \/ \E file \in Files : update_avatar_user(t, tok, file)
          \/ \E body \in SessionBodies : create_contact(t, tok, body)
    \/ get_current_user_merge(t)
    \/ get_current_user_lookup(t)
    \/ get_current_user_cache_set(t)
    \/ update_avatar_user_get_user_by_email(t)
    \/ update_avatar_user_commit(t)
    \/ update_avatar_user_refresh(t)
    \/ create_contact_commit(t)
    \/ contact_refresh(t)
    \/ create_contact_select(t)
    \/ /\ mailbox = {} /\ background = <<>>
       /\ \/ request_email(t, "notconfirmed@example.com")
          \/ reset_password_request(t, "admin@example.com")
    \/ \E tok \in MailTokens, new_password \in CachePasswords :
          reset_password(t, tok, new_password)
    \/ reset_password_commit(t)
    \/ \E tok \in MailTokens : confirmed_email(t, tok)
    \/ confirmed_email_commit(t)

SessionTicks == {1}

NextSession ==
    \/ \E t \in Serial : Session(t) \/ SerialReturn(t)
    \/ send_email(TRUE)
    \/ \E d \in SessionTicks : Tick(d)

SpecSession == InitAuth /\ [][NextSession]_vars

(***************************************************************************)
(* SpecSubject: a user registers, and a second user registers with the      *)
(* first one's email as username; the mailed tokens confirm, the second     *)
(* user logs in, and every token a client holds is given to the             *)
(* confirmation and to the password reset; one request at a time on an      *)
(* empty database, with the clock.                                          *)
(***************************************************************************)
SubjectBodies ==
    {[username |-> "testuser", email |-> "testuser@example.com",
      password |-> "Password123!", role |-> USER],
     [username |-> "testuser@example.com", email |-> "other@example.com",
      password |-> "Password123!", role |-> USER]}

Subject(t) ==
    \/ \E body \in SubjectBodies : register_user(t, body)
    \/ register_user_username(t)
    \/ register_user_insert(t)
    \/ /\ refresh_tokens = {}
       /\ \E body \in SubjectBodies : login_user(t, body.username, body.password)
    \/ login_user_insert(t)
    \/ \E tok \in Held :
          \/ confirmed_email(t, tok)
          \/ \E new_password \in CachePasswords : reset_password(t, tok, new_password)
    \/ confirmed_email_commit(t)
    \/ reset_password_commit(t)

SubjectTicks == {1}

NextSubject ==
    \/ \E t \in Serial : Subject(t) \/ SerialReturn(t)
    \/ send_email(TRUE)
    \/ \E d \in SubjectTicks : Tick(d)

SpecSubject == InitRegister /\ [][NextSubject]_vars

(***************************************************************************)
(* SpecExpiry: deadpool logged in at second 0 and the clock has reached     *)
(* the exp of the access token; the token is resolved through the identity  *)
(* cache while the clock moves on, also between the steps of a request.     *)
(***************************************************************************)
InitExpiry ==
    /\ users = SeedUsers
    /\ next_user_id = 4
    /\ refresh_tokens =
          {[map_refresh_token(refresh_token_dto("deadpool", 0), 1) EXCEPT !.id = 1]}
    /\ next_token_id = 2
    /\ cache = {}
    /\ now = ACCESS_TOKEN_EXPIRATION_SECONDS
    /\ ticks = 0
    /\ task = [t \in Tasks |-> Idle]
    /\ background = <<>>
    /\ mailbox = {}
    /\ known = {create_access_token("deadpool", 0), refresh_token_dto("deadpool", 0).token}
    /\ spent = {}
    /\ contacts = {}
    /\ next_contact_id = 1

Expiry(t) ==
    \/ login_user(t, "deadpool", "Password123!")
    \/ login_user_insert(t)
    \/ \E op \in Resolvers, tok \in CacheBearers : get_current_user(t, op, tok)
    \/ get_current_user_merge(t)
    \/ get_current_user_lookup(t)
    \/ get_current_user_cache_set(t)

ExpiryTicks == {1, CACHE_EX}

NextExpiry ==
    \/ \E t \in Serial : Expiry(t) \/ Return(t)
    \/ \E d \in ExpiryTicks : Tick(d)

SpecExpiry == InitExpiry /\ [][NextExpiry]_vars

(***************************************************************************)
(* Properties.                                                              *)
(***************************************************************************)
Finished(t, op) == task[t].op = op /\ task[t].pc = "done"

\* a request of endpoint op arrives at task t in this step
Arrives(t, op) == task[t].pc = "idle" /\ task'[t].op = op

InvalidRefreshToken == [NoResp EXCEPT !.status = 401,
                                      !.detail = "Invalid or expired refresh token"]

\* the refresh of task t passed the verification (the presented string was a
\* stored, unexpired refresh token of its subject) and rotates to a new string
PassedAndRotates(t) ==
    /\ Finished(t, "refresh")
    /\ task[t].user # NoUser
    /\ task[t].dto.token # task[t].tok

\* C1: of two refresh requests that present the same stored, unexpired
\* refresh token string, exactly one answers 200 with tokens and the other
\* answers 401 'Invalid or expired refresh token', whatever the interleaving.
C1_ExactlyOneRefreshWins ==
    \A a, b \in Tasks :
        (a # b /\ PassedAndRotates(a) /\ PassedAndRotates(b) /\ task[a].tok = task[b].tok)
        => \/ task[a].resp.status = 200 /\ task[b].resp = InvalidRefreshToken
           \/ task[b].resp.status = 200 /\ task[a].resp = InvalidRefreshToken

\* both refreshes of the same stored string were verified and both answer 200
C1_Witness ==
    \E a, b \in Tasks :
        /\ a # b /\ PassedAndRotates(a) /\ PassedAndRotates(b)
        /\ task[a].tok = task[b].tok
        /\ task[a].resp.status = 200 /\ task[b].resp.status = 200

\* the stored users a login request names with the right password
Authenticated(body) ==
    {u \in users : u.username = body.username
                   /\ u.hashed_password = <<"bcrypt", body.password>>}

\* C2: a login with the correct password of a confirmed user answers 200 with
\* token_type 'bearer', an access token of type 'access' and a refresh token
\* of type 'refresh', both with the username as subject and distinct, and the
\* refresh token is the string of a record newly persisted for that user.
C2_LoginSucceeds ==
    \A t \in Tasks : \A u \in Authenticated(task[t].body) :
        (Finished(t, "login") /\ u.confirmed)
        => LET r == task[t].resp
           IN  /\ r.status = 200
               /\ r.token_type = "bearer"
               /\ r.access_token.typ = "access" /\ r.access_token.sig = "ok"
               /\ r.refresh_token.typ = "refresh" /\ r.refresh_token.sig = "ok"
               /\ r.access_token.sub = u.username
               /\ r.refresh_token.sub = u.username
               /\ r.access_token # r.refresh_token
               /\ \E row \in refresh_tokens :
                     row.id = task[t].row /\ row.token = r.refresh_token
                     /\ row.user_id = u.id

\* a login of a confirmed user with the right password ends in the unique
\* constraint of refresh_tokens.token
C2_Witness ==
    \E t \in Tasks : \E u \in Authenticated(task[t].body) :
        /\ Finished(t, "login") /\ u.confirmed
        /\ task[t].resp = ServerError("IntegrityError")

\* C3: a login answers 401 'Not valid password or username' when the username
\* is unknown or the password does not verify, and 401 'Email must be
\* confirmed' when the password is right and the user unconfirmed; either way
\* no token is issued and no refresh-token record is created or changed.
C3_LoginRejected ==
    [][\A t \in Tasks :
          Arrives(t, "login") =>
            LET b == task'[t].body
                right == {u \in users : u.username = b.username
                                        /\ u.hashed_password = <<"bcrypt", b.password>>}
                r == task'[t].resp
            IN  /\ right = {} =>
                      r.status = 401 /\ r.detail = "Not valid password or username"
                /\ (right # {} /\ \A u \in right : ~u.confirmed) =>
                      r.status = 401 /\ r.detail = "Email must be confirmed"
                /\ (right = {} \/ \A u \in right : ~u.confirmed) =>
                      /\ task'[t].pc = "done"
                      /\ r.access_token = NoToken /\ r.refresh_token = NoToken
                      /\ task'[t].access = NoToken /\ task'[t].dto = NoDto
                      /\ refresh_tokens' = refresh_tokens
                      /\ next_token_id' = next_token_id]_vars

C3_Witness ==
    \E t \in Tasks :
        /\ Finished(t, "login")
        /\ task[t].resp.detail = "Email must be confirmed"
        /\ \E u \in Authenticated(task[t].body) : ~u.confirmed

\* C4 as stated: get_current_user fails with 401 'Could not validate
\* credentials' for every bearer token presented after the token's exp time,
\* whatever the identity cache and the user store hold.
C4_ExpiredAlwaysRejected ==
    \A t \in Tasks :
        (task[t].op \in Resolvers /\ task[t].pc = "done" /\ task[t].tok.exp < task[t].at)
        => task[t].resp = credentials_exception

\* C4 amended: get_current_user fails with 401 'Could not validate
\* credentials' for every bearer token presented after the token's exp time
\* for which the identity cache returns no entry.
C4_ExpiredRejectedOnMiss ==
    \A t \in Tasks :
        (task[t].op \in Resolvers /\ task[t].pc = "done" /\ task[t].tok.exp < task[t].at
            /\ ~task[t].cached)
        => task[t].resp = credentials_exception

C4_Witness ==
    \E t \in Tasks :
        /\ task[t].op \in Resolvers /\ task[t].pc = "done"
        /\ task[t].tok.sig = "ok" /\ task[t].tok.typ = "access"
        /\ task[t].tok.exp < task[t].at
        /\ ~task[t].cached
        /\ task[t].resp.status = 401

\* C5: refresh tokens are one-time-use: once a refresh presenting the string
\* R has succeeded, every later refresh presenting R answers 401.
C5_OneTimeUse ==
    [][\A t \in Tasks :
          (Arrives(t, "refresh") /\ task'[t].tok \in spent)
          => task'[t].pc = "done" /\ task'[t].resp = InvalidRefreshToken]_vars

\* a refresh that succeeded and left the stored string as it was: the new
\* token was made in the second the presented one was made in
C5_Witness ==
    \E t \in Tasks :
        /\ Finished(t, "refresh") /\ task[t].resp.status = 200
        /\ task[t].dto.token = task[t].tok
        /\ \E row \in refresh_tokens : row.token = task[t].tok

\* C6: a refresh answers 401 'Invalid or expired refresh token' when the
\* presented string has a bad signature, is expired, has no subject, has a
\* token_type other than 'refresh' or is not the string of a stored record
\* owned by the user its subject names; then no access token is issued and no
\* refresh-token record is created or modified.
C6_RefreshRejected ==
    [][\A t \in Tasks :
          Arrives(t, "refresh") =>
            LET k == task'[t].tok
                owners == {u \in users :
                              /\ u.username = k.sub
                              /\ \E row \in refresh_tokens :
                                    row.token = k /\ row.user_id = u.id}
                invalid == \/ k.sig # "ok"
                           \/ k.exp < now
                           \/ k.sub = None
                           \/ k.typ # "refresh"
                           \/ owners = {}
            IN  invalid =>
                   /\ task'[t].pc = "done"
                   /\ task'[t].resp = InvalidRefreshToken
                   /\ task'[t].access = NoToken
                   /\ refresh_tokens' = refresh_tokens
                   /\ next_token_id' = next_token_id]_vars

\* an expired refresh token whose record is still stored was refused
C6_Witness ==
    \E t \in Tasks :
        /\ Finished(t, "refresh")
        /\ task[t].resp = InvalidRefreshToken
        /\ task[t].tok.sig = "ok" /\ task[t].tok.typ = "refresh"
        /\ task[t].tok.exp < task[t].at
        /\ \E row \in refresh_tokens : row.token = task[t].tok

\* C7: get_current_admin_user returns a user only when the user that
\* get_current_user resolved has role admin; a resolved non-admin gives 403
\* 'You are not authorized to perform this action.'; when the resolution
\* fails the outcome is 401, never 403.
C7_AdminOnly ==
    \A t \in Tasks :
        Finished(t, "get_current_admin_user") =>
            LET r == task[t].resp
            IN  /\ r.status \in {200, 401, 403}
                /\ r.status = 200 => r.user = task[t].user /\ r.user.role = "admin"
                /\ (task[t].user # NoUser /\ task[t].user.role # "admin") =>
                      /\ r.status = 403
                      /\ r.detail = "You are not authorized to perform this action."
                      /\ r.user = NoUser
                /\ task[t].user = NoUser => r.status = 401

C7_Witness ==
    \E t \in Tasks :
        /\ Finished(t, "get_current_admin_user")
        /\ task[t].user # NoUser /\ task[t].user.role = "user"
        /\ task[t].resp.status = 403

\* C8: a registration answers 409 'User with such email already exists' when
\* a stored user has the requested email, and otherwise 409 'User with such
\* username already exists' when a stored user has the requested username;
\* then no user row is created or changed and no email is scheduled.
C8_RegisterConflict ==
    [][\A t \in Tasks :
          /\ (Arrives(t, "register") /\ \E u \in users : u.email = task'[t].body.email)
             => /\ task'[t].pc = "done"
                /\ task'[t].resp.status = 409
                /\ task'[t].resp.detail = "User with such email already exists"
                /\ users' = users /\ background' = background
          /\ (/\ task[t].op = "register" /\ task[t].pc = "username"
              /\ task'[t] # task[t]
              /\ \E u \in users : u.username = task[t].body.username)
             => /\ task'[t].pc = "done"
                /\ task'[t].resp.status = 409
                /\ task'[t].resp.detail = "User with such username already exists"
                /\ users' = users /\ background' = background]_vars

\* C8 for the bodies that pass the validation (a role is given): the 409
\* answers are as C8 states them.
C8_RegisterConflictWithRole ==
    [][\A t \in Tasks :
          /\ (/\ Arrives(t, "register") /\ UserCreate(task'[t].body)
              /\ \E u \in users : u.email = task'[t].body.email)
             => /\ task'[t].pc = "done"
                /\ task'[t].resp.status = 409
                /\ task'[t].resp.detail = "User with such email already exists"
                /\ users' = users /\ background' = background
          /\ (/\ task[t].op = "register" /\ task[t].pc = "username"
              /\ task'[t] # task[t]
              /\ \E u \in users : u.username = task[t].body.username)
             => /\ task'[t].pc = "done"
                /\ task'[t].resp.status = 409
                /\ task'[t].resp.detail = "User with such username already exists"
                /\ users' = users /\ background' = background]_vars

\* a registration without a role for a stored email was refused by the
\* validation of the body
C8_Witness ==
    \E t \in Tasks :
        /\ Finished(t, "register")
        /\ task[t].body.role = None
        /\ \E u \in users : u.email = task[t].body.email
        /\ task[t].resp.status = 422

\* C9: no two stored users share a username and no two share an email, also
\* when registrations run concurrently.
C9_UniqueUsers ==
    \A u, v \in users :
        u # v => u.id # v.id /\ u.username # v.username /\ u.email # v.email

\* the unique constraints refused a concurrent registration
C9_Witness ==
    /\ Cardinality(users) = 2
    /\ \E t \in Tasks :
          /\ Finished(t, "register")
          /\ task[t].resp = ServerError("IntegrityError")

\* C10: a registration with a username and an email not yet stored, a valid
\* password and no role answers 201, persists exactly one new user with
\* confirmed = false and role 'user' whose credential is a hash of the
\* password, returns that user without the hash, and schedules exactly one
\* confirmation email.
C10_RegisterWithoutRole ==
    [][\A t \in Tasks :
          /\ (/\ Arrives(t, "register")
              /\ task'[t].body.role = None
              /\ ~\E u \in users : u.email = task'[t].body.email
                                   \/ u.username = task'[t].body.username)
             => task'[t].pc # "done"
          /\ (/\ task[t].op = "register" /\ task[t].pc = "insert"
              /\ task'[t].pc = "done"
              /\ task[t].body.role = None
              /\ ~\E u \in users : u.email = task[t].body.email
                                   \/ u.username = task[t].body.username)
             => /\ task'[t].resp.status = 201
                /\ \E u \in users' :
                      /\ users' = users \cup {u} /\ u \notin users
                      /\ u.username = task[t].body.username
                      /\ u.email = task[t].body.email
                      /\ ~u.confirmed /\ u.role = "user"
                      /\ u.hashed_password[1] = "bcrypt"
                      /\ task'[t].resp.json =
                            [id |-> u.id, username |-> u.username, email |-> u.email,
                             role |-> u.role, avatar |-> u.avatar]
                /\ Len(background') = Len(background) + 1]_vars

\* a registration without a role for a fresh username and email was refused
C10_Witness ==
    \E t \in Tasks :
        /\ Finished(t, "register")
        /\ task[t].body.role = None
        /\ users = {}
        /\ task[t].resp = HTTPException(422, "RequestValidationError")

(***************************************************************************)
(* Properties of email confirmation and password reset.                     *)
(***************************************************************************)
\* the stored users a login request of this step names with the right password
RightUser(t) ==
    {u \in users : /\ u.username = task'[t].body.username
                   /\ u.hashed_password = get_password_hash(task'[t].body.password)}

\* a login of an unconfirmed user with the right password answers 401
UnconfirmedLoginRefused ==
    \A t \in Tasks :
        (Arrives(t, "login") /\ \E u \in RightUser(t) : ~u.confirmed)
        => /\ task'[t].pc = "done"
           /\ task'[t].resp = HTTPException(401, "Email must be confirmed")

\* a registered user is stored unconfirmed, and a user becomes confirmed only
\* in the step in which a confirmed_email with a token for the user's email
\* succeeds
ConfirmedOnlyByToken ==
    \A v \in users' :
        LET before == {u \in users : u.id = v.id}
        IN  /\ before = {} => ~v.confirmed
            /\ \A u \in before : (~u.confirmed /\ v.confirmed) =>
                  \E t \in Tasks :
                      /\ task[t].op = "confirmed_email" /\ task[t].pc # "done"
                      /\ task'[t].pc = "done" /\ task'[t].resp.status = 200
                      /\ task[t].tok.sub = u.email

\* the login of a confirmed user with the right password ends
LoginEnds(t) == task[t].op = "login" /\ task[t].pc = "insert" /\ task'[t].pc = "done"

\* C11: for a user made by register, every login with the right password
\* answers 401 until a confirmed_email with a token for the user's email has
\* succeeded, and every such login after that answers 200 with both tokens;
\* a request-email before the confirmation leaves the confirmed flag alone.
C11_LoginGatedByConfirmation ==
    [][/\ UnconfirmedLoginRefused
       /\ ConfirmedOnlyByToken
       /\ \A t \in Tasks :
             LoginEnds(t) =>
                /\ task[t].user.confirmed
                /\ task'[t].resp.status = 200
                /\ task'[t].resp.access_token # NoToken
                /\ task'[t].resp.refresh_token # NoToken
       /\ \A t \in Tasks : Arrives(t, "request_email") => users' = users]_vars

\* C11 but for the logins whose refresh token string is already stored (the
\* login of C2 in the second of an earlier login of the user): the rest of
\* C11 holds.
C11_LoginGatedExceptSameSecond ==
    [][/\ UnconfirmedLoginRefused
       /\ ConfirmedOnlyByToken
       /\ \A t \in Tasks :
             (LoginEnds(t) /\ ~TokenTaken(task[t].dto.token, 0)) =>
                /\ task[t].user.confirmed
                /\ task'[t].resp.status = 200
                /\ task'[t].resp.access_token # NoToken
                /\ task'[t].resp.refresh_token # NoToken
       /\ \A t \in Tasks : Arrives(t, "request_email") => users' = users]_vars

\* a user made by register and confirmed by token logs in and gets 500
C11_Witness ==
    \E t \in Tasks :
        /\ Finished(t, "login")
        /\ task[t].user.confirmed /\ task[t].user.id >= 1
        /\ task[t].resp = ServerError("IntegrityError")

\* the stored users whose email is the subject of a token that decodes now
TokenUser(token) ==
    {u \in users : jwt_decode(token, now).ok /\ token.sub = u.email}

\* C12: confirmed_email with a valid token for a user that is confirmed
\* already answers 200 'Your email is already confirmed' and changes nothing
\* in the user store, the refresh-token store or the cache: confirming twice
\* leaves the state of confirming once.
C12_ConfirmIdempotent ==
    [][\A t \in Tasks :
          (/\ Arrives(t, "confirmed_email")
           /\ \E u \in TokenUser(task'[t].tok) : u.confirmed)
          => /\ task'[t].pc = "done"
             /\ task'[t].resp = Message("Your email is already confirmed")
             /\ users' = users
             /\ refresh_tokens' = refresh_tokens
             /\ cache' = cache
             /\ background' = background]_vars

\* the token of a confirmation email was presented a second time
C12_Witness ==
    \E t \in Tasks :
        /\ Finished(t, "confirmed_email")
        /\ task[t].resp = Message("Your email is already confirmed")
        /\ \E m \in mailbox : m.token = task[t].tok
        /\ \E u \in users : u.email = task[t].tok.sub /\ u.confirmed

\* C13: confirmed_email answers 422 'Not valid token' when the token cannot
\* be decoded (bad signature, malformed, expired) and 400 'Verification
\* error' when it decodes to an email no stored user has; in both cases no
\* confirmed flag changes.
C13_ConfirmRejected ==
    [][\A t \in Tasks :
          Arrives(t, "confirmed_email") =>
            LET k == task'[t].tok
                d == jwt_decode(k, now)
            IN  /\ ~d.ok =>
                      /\ task'[t].pc = "done"
                      /\ task'[t].resp = HTTPException(422, "Not valid token")
                      /\ users' = users
                /\ (d.ok /\ k.sub # None /\ ~\E u \in users : u.email = k.sub) =>
                      /\ task'[t].pc = "done"
                      /\ task'[t].resp = HTTPException(400, "Verification error")
                      /\ users' = users]_vars

\* the token of a confirmation email was presented after its exp, the user
\* still unconfirmed
C13_Witness ==
    \E t \in Tasks :
        /\ Finished(t, "confirmed_email")
        /\ task[t].resp = HTTPException(422, "Not valid token")
        /\ task[t].tok.sig = "ok" /\ task[t].tok.exp < task[t].at
        /\ \E u \in users : u.email = task[t].tok.sub /\ ~u.confirmed

\* the stores that the email endpoints only read
Stored == <<users, next_user_id, refresh_tokens, next_token_id, cache>>

\* C14: request-email schedules exactly one confirmation email and answers
\* 'Check your mailbox for confirmation email' only when the email is that of
\* a stored, unconfirmed user; for an unknown email it answers 400
\* 'Verification error' and for a confirmed user 200 'Your email is already
\* confirmed', scheduling nothing; it never changes stored state.
C14_RequestEmail ==
    [][\A t \in Tasks :
          Arrives(t, "request_email") =>
            LET owner == {u \in users : u.email = task'[t].body.email}
                r == task'[t].resp
            IN  /\ task'[t].pc = "done"
                /\ Stored' = Stored
                /\ owner = {} =>
                      /\ r = HTTPException(400, "Verification error")
                      /\ background' = background
                /\ \A u \in owner :
                      /\ u.confirmed =>
                            /\ r = Message("Your email is already confirmed")
                            /\ background' = background
                      /\ ~u.confirmed =>
                            /\ r = Message("Check your mailbox for confirmation email")
                            /\ background' = Append(background,
                                  [func |-> "send_confirm_email", email |-> u.email,
                                   username |-> u.username])]_vars

\* a confirmed user asked for the confirmation email again
C14_Witness ==
    \E t \in Tasks :
        /\ Finished(t, "request_email")
        /\ task[t].resp = Message("Your email is already confirmed")
        /\ task[t].user.confirmed
        /\ background = <<>>

\* C15: reset-password-request schedules exactly one reset email only when
\* the email is that of a stored, confirmed user; for an unknown email it
\* answers 400 'Verification error' and for an unconfirmed user 401 'Email
\* must be confirmed', scheduling nothing; it never changes stored state.
C15_ResetPasswordRequest ==
    [][\A t \in Tasks :
          Arrives(t, "reset_password_request") =>
            LET owner == {u \in users : u.email = task'[t].body.email}
                r == task'[t].resp
            IN  /\ task'[t].pc = "done"
                /\ Stored' = Stored
                /\ owner = {} =>
                      /\ r = HTTPException(400, "Verification error")
                      /\ background' = background
                /\ \A u \in owner :
                      /\ ~u.confirmed =>
                            /\ r = HTTPException(401, "Email must be confirmed")
                            /\ background' = background
                      /\ u.confirmed =>
                            /\ r.status = 200
                            /\ background' = Append(background,
                                  [func |-> "send_reset_password_email",
                                   email |-> u.email, username |-> u.username])]_vars

\* an unconfirmed user asked for the reset email
C15_Witness ==
    \E t \in Tasks :
        /\ Finished(t, "reset_password_request")
        /\ task[t].resp = HTTPException(401, "Email must be confirmed")
        /\ task[t].user # NoUser /\ ~task[t].user.confirmed
        /\ background = <<>>

\* what login_user makes of a username and a password: the credentials are
\* refused, the user is unconfirmed, or the tokens are issued
LoginAnswer(username, password) ==
    LET user == get_user_by_username(username)
    IN  IF user = NoUser \/ ~verify_password(password, user.hashed_password)
        THEN "Not valid password or username"
        ELSE IF ~user.confirmed THEN "Email must be confirmed"
        ELSE "tokens"

\* reset_password refuses a form without token or new_password, and a token
\* whose email no stored user has, and changes nothing
ResetRefused ==
    \A t \in Tasks :
        Arrives(t, "reset_password") =>
            LET k == task'[t].tok
            IN  /\ (k = NoToken \/ task'[t].body.password = None) =>
                      /\ task'[t].pc = "done"
                      /\ task'[t].resp = HTTPException(400, "Invalid data")
                /\ (/\ k # NoToken /\ task'[t].body.password # None
                    /\ jwt_decode(k, now).ok /\ k.sub # None
                    /\ ~\E u \in users : u.email = k.sub) =>
                      /\ task'[t].pc = "done"
                      /\ task'[t].resp = HTTPException(400, "Verification error")
                /\ Stored' = Stored /\ background' = background

\* task t commits the reset of the password of user u
ResetCommits(t, u) ==
    /\ task[t].op = "reset_password" /\ task[t].pc = "commit" /\ task'[t].pc = "done"
    /\ u \in users /\ u.email = task[t].tok.sub

\* the commit replaces the hash of u by the hash of the new password and
\* leaves every other user's record and every other column alone
ResetReplacesHash(t, u) ==
    /\ task'[t].resp.status = 200
    /\ users' = (users \ {u}) \cup
                   {[u EXCEPT !.hashed_password = get_password_hash(task[t].body.password[2])]}

Scheduled ==
    \A job \in {background'[i] : i \in 1..Len(background')} :
        background' = Append(background, job) =>
            /\ \E u \in users' : u.email = job.email /\ u.username = job.username
            /\ \E t \in Tasks :
                  /\ task[t].pc # "done" /\ task'[t].pc = "done"
                  /\ task'[t].op \in {"register", "request_email", "reset_password_request"}
                  /\ task'[t].resp.status \in {200, 201}

\* an email is sent, or fails to be sent, in this step
Dispatched == background # <<>> /\ background' = Tail(background)

\* C17: a delivery failure of a confirmation or reset email is never
\* surfaced: the response of register, request-email and
\* reset-password-request is the same whether or not the delivery fails, the
\* email is dispatched only after the user row is committed, and a user row
\* made by register stays persisted when the delivery fails.
C17_DeliveryFailureSwallowed ==
    [][/\ Scheduled
       /\ Dispatched =>
             /\ task' = task
             /\ Stored' = Stored
             /\ \E u \in users : /\ u.email = Head(background).email
                                 /\ u.username = Head(background).username
             /\ \/ mailbox' = mailbox
                \/ \E m \in mailbox' : /\ mailbox' = mailbox \cup {m}
                                       /\ m.email = Head(background).email]_vars

\* the confirmation email of a registration was not delivered: the response
\* is 201 and the user is stored, unconfirmed
C17_Witness ==
    \E t \in Tasks :
        /\ Finished(t, "register") /\ task[t].resp.status = 201
        /\ background = <<>> /\ mailbox = {}
        /\ \E u \in users : u.id = task[t].user.id /\ ~u.confirmed

(***************************************************************************)
(* Properties of the resolution of the current user.                        *)
(***************************************************************************)
\* the entries of the cache for the bearer token that are alive now
LiveEntries(token) ==
    {e \in cache : e.key = cache_key(token) /\ now < e.set_at + CACHE_EX}

\* C18: when the identity cache holds an entry for 'user:'+token,
\* get_current_user returns the identity deserialized from the entry
\* without decoding the token, without the lookup by username and without
\* writing to the cache.
C18_CacheHitShortCircuits ==
    [][\A t \in Tasks :
          /\ (Arrives(t, "get_current_user") \/ Arrives(t, "get_current_admin_user")) =>
                /\ LiveEntries(task'[t].tok) # {} => task'[t].cached
                /\ task'[t].cached =>
                      /\ task'[t].pc = "merge"
                      /\ task'[t].calls = <<"cache.get">>
                      /\ \E e \in cache :
                            /\ e.key = cache_key(task'[t].tok)
                            /\ task'[t].user = parse_datetime_fields(e.value)
                      /\ cache' = cache /\ users' = users
          /\ (task[t].op \in Resolvers /\ task[t].pc = "merge" /\ task'[t] # task[t]) =>
                /\ task'[t].pc = "done"
                /\ task'[t].calls = <<"cache.get", "db.merge">>
                /\ task'[t].user = task[t].user
                /\ task[t].op = "get_current_user" =>
                      task'[t].resp = UserResponse(task[t].user)
                /\ cache' = cache /\ users' = users]_vars

\* a bearer token was resolved from the cache
C18_Witness ==
    \E t \in Tasks :
        /\ Finished(t, "get_current_user") /\ task[t].cached
        /\ task[t].resp.status = 200 /\ task[t].resp.user.username = task[t].tok.sub
        /\ task[t].calls = <<"cache.get", "db.merge">>

\* the answer get_current_user or get_current_admin_user gives for a user
Resolved(op, user) ==
    IF op = "get_current_admin_user" /\ user.role # "admin"
    THEN HTTPException(403, "You are not authorized to perform this action.")
    ELSE UserResponse(user)

\* C19: on a cache miss, get_current_user with a valid access token of an
\* existing user makes exactly one decode, then exactly one lookup by the
\* decoded username, then exactly one cache write of the serialized user
\* under 'user:'+token with a time to live of 3600 seconds, and returns the
\* user; when the decode fails, the token_type is not 'access', the subject
\* is missing or no such user exists, it answers 401 and writes nothing to
\* the cache.
C19_CacheMissResolves ==
    [][\A t \in Tasks :
          /\ ((Arrives(t, "get_current_user") \/ Arrives(t, "get_current_admin_user"))
                 /\ ~task'[t].cached) =>
                LET k == task'[t].tok
                    bad == \/ k.sig # "ok" \/ k.exp < now
                           \/ k.typ # "access" \/ k.sub = None
                IN  /\ task'[t].calls = <<"cache.get", "jwt.decode">>
                    /\ cache' = cache
                    /\ bad => /\ task'[t].pc = "done"
                              /\ task'[t].resp = credentials_exception
                    /\ ~bad => task'[t].pc = "lookup"
          /\ (task[t].op \in Resolvers /\ task[t].pc = "lookup" /\ task'[t] # task[t]) =>
                LET found == {u \in users : u.username = task[t].tok.sub}
                IN  /\ task'[t].calls = <<"cache.get", "jwt.decode", "get_user_by_username">>
                    /\ cache' = cache
                    /\ found = {} => /\ task'[t].pc = "done"
                                     /\ task'[t].resp = credentials_exception
                    /\ \A u \in found : task'[t].pc = "cache_set" /\ task'[t].user = u
          /\ (task[t].op \in Resolvers /\ task[t].pc = "cache_set" /\ task'[t] # task[t]) =>
                LET key == cache_key(task[t].tok)
                    value == to_dict(task[t].user)
                IN  /\ task'[t].calls = <<"cache.get", "jwt.decode",
                                          "get_user_by_username", "cache.set">>
                    /\ task'[t].pc = "done"
                    /\ task'[t].resp = Resolved(task[t].op, task[t].user)
                    /\ {e \in cache' : e.key # key} = {e \in cache : e.key # key}
                    /\ {e.value : e \in {e \in cache' : e.key = key}} = {value}
                    /\ cache_get(key, now + 3599)' = {value}
                    /\ value \in cache_get(key, now + 3600)'
                    /\ cache_get(key, now + 3601)' = {Miss}]_vars

\* a valid access token was resolved on a miss and the user cached
C19_Witness ==
    \E t \in Tasks :
        /\ Finished(t, "get_current_user") /\ ~task[t].cached
        /\ task[t].resp.status = 200 /\ task[t].resp.user.username = task[t].tok.sub
        /\ task[t].calls = <<"cache.get", "jwt.decode", "get_user_by_username", "cache.set">>
        /\ \E e \in cache : e.key = cache_key(task[t].tok) /\ e.set_at = task[t].at

(***************************************************************************)
(* Properties of the lifetime of a refresh token.                           *)
(***************************************************************************)
\* C20: a refresh token issued by login or by refresh under the default
\* settings expires REFRESH_TOKEN_EXPIRATION_SECONDS = 604800 seconds after
\* its issue: exp - iat = 604800 in the token and expires_at - created_at =
\* 604800 in the stored record.
C20_RefreshLifetime ==
    \A row \in refresh_tokens :
        /\ row.token.exp - row.token.iat = 604800
        /\ row.expires_at - row.created_at = 604800

\* a stored refresh token, rotated by a refresh, that lives 604800 minutes
C20_Witness ==
    \E row \in refresh_tokens :
        /\ row.token.exp - row.token.iat = 604800 * 60
        /\ row.expires_at - row.created_at = 604800 * 60
        /\ row.created_at > 0
        /\ \E t \in Tasks : Finished(t, "refresh") /\ task[t].row = row.id
                            /\ task[t].resp.status = 200

(***************************************************************************)
(* C21: PATCH /users/{user_id}/role called by an authenticated admin        *)
(* answers 404 'User not found' when no user has that id, and otherwise     *)
(* stores the requested role on exactly that user and returns the updated   *)
(* user; a caller who is not an admin gets 403 and no role changes.         *)
(***************************************************************************)
\* the resolver of the request ends at this step with this user
Authorizes(t, user) ==
    /\ task[t].op = "update_user_role"
    /\ task[t].pc \in {"merge", "cache_set"}
    /\ task[t].user = user

C21_UpdateUserRole ==
    [][\A t \in Tasks :
          /\ \A user \in {task[t].user} :
                (Authorizes(t, user) /\ user.role # ADMIN /\ task'[t] # task[t]) =>
                   /\ task'[t].pc = "done"
                   /\ task'[t].resp.status = 403
                   /\ users' = users
          /\ (At(t, "update_user_role", "body") /\ task'[t] # task[t]) =>
                LET target == get_user_by_id(task[t].id)
                    updated == [target EXCEPT !.role = task[t].body.role]
                IN  /\ task'[t].pc = "done"
                    /\ IF target = NoUser
                       THEN /\ task'[t].resp = HTTPException(404, "User not found")
                            /\ users' = users
                       ELSE /\ task'[t].resp = UserResponse(updated)
                            /\ users' = (users \ {target}) \cup {updated}]_vars

\* an admin's request for an existing user has been answered
C21_Witness ==
    \E t \in Tasks :
        /\ At(t, "update_user_role", "done")
        /\ task[t].id = 1
        /\ task[t].body.role = ADMIN
        /\ task[t].resp.status \notin {401, 403, 404}

(***************************************************************************)
(* C22: contacts are isolated per user: reading, updating and deleting a    *)
(* contact by id act only on a contact the authenticated user owns and      *)
(* answer 404 'Contact not found', leaving the contact unchanged, for a     *)
(* contact of another user or a deleted one; the list, search and birthday  *)
(* queries return only the caller's contacts.                               *)
(***************************************************************************)
\* the user the bearer token was issued to
Caller(t) == get_user_by_username(task[t].tok.sub)

Owned(t, contact) == contact.user_id = Caller(t).id

ById == {"read_contact", "update_contact", "remove_contact"}

C22_ContactsIsolated ==
    [][\A t \in Tasks :
          (task[t].op \in ContactHandlers /\ task'[t] # task[t]) =>
             /\ \A c \in (contacts \ contacts') \cup (contacts' \ contacts) : Owned(t, c)
             /\ (/\ task[t].op \in ById
                 /\ task[t].pc = "body"
                 /\ ~\E c \in contacts : c.id = task[t].id /\ Owned(t, c)) =>
                   /\ task'[t].pc = "done"
                   /\ task'[t].resp = HTTPException(404, "Contact not found")
                   /\ contacts' = contacts
             /\ task'[t].pc = "done" =>
                   /\ task'[t].resp.contact # NoContact => Owned(t, task'[t].resp.contact)
                   /\ \A i \in DOMAIN task'[t].resp.contacts :
                         Owned(t, task'[t].resp.contacts[i])]_vars

\* a user asked for the contact of another user by its id and got 404, and
\* a user's listing left out the contact of the other user
C22_Witness ==
    \E t \in Tasks :
        /\ task[t].pc = "done"
        /\ Caller(t) # NoUser
        /\ \E c \in contacts :
              /\ ~Owned(t, c)
              /\ \/ /\ task[t].op \in ById
                    /\ task[t].id = c.id
                    /\ task[t].resp = HTTPException(404, "Contact not found")
                 \/ /\ task[t].op = "read_contacts"
                    /\ task[t].resp.status = 200
                    /\ task[t].resp.contacts # <<>>

(***************************************************************************)
(* C23: a successful rotation overwrites the token string, created_at and   *)
(* expires_at of the one record it selected by (old token, user id) and     *)
(* nothing else: the record keeps its id and user_id, no record is inserted *)
(* or deleted and every other record is unchanged.                          *)
(***************************************************************************)
C23_RotationFrame ==
    [][\A t \in Tasks :
          /\ (At(t, "refresh", "select") /\ task'[t].pc = "commit") =>
                /\ refresh_tokens' = refresh_tokens
                /\ \A r \in refresh_tokens :
                      (r.id = task'[t].row) <=>
                         (r.token = task[t].tok /\ r.user_id = task[t].user.id)
          /\ (/\ At(t, "refresh", "commit")
              /\ task'[t].pc = "done"
              /\ task'[t].resp.status = 200) =>
                LET dto == task[t].dto
                    old == CHOOSE r \in refresh_tokens : r.id = task[t].row
                    new == [old EXCEPT !.token = dto.token,
                                       !.expires_at = dto.expires_at,
                                       !.created_at = dto.created_at]
                IN  /\ \E r \in refresh_tokens : r.id = task[t].row
                    /\ old.user_id = task[t].user.id
                    /\ refresh_tokens' = (refresh_tokens \ {old}) \cup {new}
                    /\ next_token_id' = next_token_id
                    /\ users' = users
                    /\ cache' = cache]_vars

\* a rotation has replaced the string of one of two records by a new one
C23_Witness ==
    \E t \in Tasks :
        /\ Finished(t, "refresh")
        /\ task[t].resp.status = 200
        /\ task[t].dto.token # task[t].tok
        /\ Cardinality(refresh_tokens) = 2
        /\ \E r \in refresh_tokens :
              /\ r.id = task[t].row
              /\ r.token = task[t].dto.token
              /\ r.created_at = task[t].dto.created_at
              /\ r.expires_at = task[t].dto.expires_at

(***************************************************************************)
(* C24: on a successful refresh the refresh_token of the response is the    *)
(* presented string unchanged, and it differs from the string the store     *)
(* holds for that record after the rotation: the rotated string is not      *)
(* returned to the caller.                                                  *)
(***************************************************************************)
C24_ResponseKeepsPresentedToken ==
    [][\A t \in Tasks :
          (/\ At(t, "refresh", "commit")
           /\ task'[t].pc = "done"
           /\ task'[t].resp.status = 200) =>
             /\ task'[t].resp.refresh_token = task[t].tok
             /\ \A r \in refresh_tokens' :
                   r.id = task[t].row => r.token # task'[t].resp.refresh_token]_vars

\* a refresh answered with the presented string while the record holds the
\* rotated one
C24_Witness ==
    \E t \in Tasks :
        /\ Finished(t, "refresh")
        /\ task[t].resp.status = 200
        /\ task[t].resp.refresh_token = task[t].tok
        /\ \E r \in refresh_tokens :
              r.id = task[t].row /\ r.token = task[t].dto.token /\ r.token # task[t].tok

(***************************************************************************)
(* C25: the identity cache is written only by get_current_user on a miss:   *)
(* the role update, the avatar update, the password reset, the email        *)
(* confirmation, login and refresh leave every cache entry unchanged, so an *)
(* entry written before such a change keeps serving the old role,           *)
(* confirmed and avatar values until its 3600 seconds have run out.         *)
(***************************************************************************)
\* the steps of a request after its dependency, and the handlers without one
Body(t) ==
    \/ task[t].op \in {"login", "refresh", "reset_password", "confirmed_email",
                       "request_email"}
    \/ task[t].op \in AdminHandlers /\ task[t].pc \in {"body", "commit", "refresh"}

C25_CacheWrittenOnMissOnly ==
    [][/\ \A t \in Tasks : (Body(t) /\ task'[t] # task[t]) => cache' = cache
       /\ \A e \in cache' \ cache :
             \E t \in Tasks :
                /\ task[t].pc = "cache_set" /\ ~task[t].cached
                /\ e = [key |-> cache_key(task[t].tok),
                        value |-> to_dict(task[t].user), set_at |-> now]
       /\ \A e \in cache \ cache' :
             \/ now' > e.set_at + CACHE_EX
             \/ \E t \in Tasks : /\ task[t].pc = "cache_set"
                                  /\ e.key = cache_key(task[t].tok)
       /\ \A t \in Tasks :
             (IsIdle(t) /\ task'[t].cached) =>
                \E e \in cache :
                   /\ e.key = cache_key(task'[t].tok)
                   /\ now <= e.set_at + CACHE_EX
                   /\ task'[t].user = parse_datetime_fields(e.value)]_vars

\* the avatar was changed after the entry was written, and a later request
\* with the same token is answered with the avatar of the entry
C25_Witness ==
    \E t \in Tasks :
        /\ Finished(t, "get_current_user")
        /\ task[t].cached
        /\ task[t].resp.status = 200
        /\ task[t].resp.user.avatar = "gravatar"
        /\ get_user_by_id(task[t].resp.user.id).avatar \in Files

(***************************************************************************)
(* C26: the tokens of the confirmation mail and of the reset mail are       *)
(* interchangeable: any unexpired token create_email_token made for the     *)
(* email E is accepted by confirmed_email, by the reset-password form and   *)
(* by reset-password alike.                                                 *)
(***************************************************************************)
TokenHandlers == {"confirmed_email", "reset_password_form", "reset_password"}

C26_EmailTokensInterchangeable ==
    [][\A t \in Tasks : \A m \in mailbox :
          (/\ IsIdle(t)
           /\ task'[t].op \in TokenHandlers
           /\ task'[t].tok = m.token
           /\ m.token.exp >= now) =>
             LET user == get_user_by_email(m.email)
                 req == task'[t]
             IN  /\ user # NoUser
                 /\ req.user = user
                 /\ req.op = "confirmed_email" =>
                       \/ req.pc = "commit"
                       \/ req.pc = "done" /\ req.resp = Message("Your email is already confirmed")
                 /\ req.op = "reset_password_form" =>
                       req.pc = "done" /\ req.resp = Message("reset_password_form.html")
                 /\ req.op = "reset_password" => req.pc = "commit"]_vars

\* the password of a user was reset with the token of a confirmation mail
C26_Witness ==
    \E t \in Tasks : \E m \in mailbox :
        /\ Finished(t, "reset_password")
        /\ task[t].tok = m.token
        /\ m.func = "send_confirm_email"
        /\ task[t].resp = Message("Password has been reset successfully")
        /\ get_user_by_email(m.email).hashed_password = task[t].body.password

(***************************************************************************)
(* C27: token purposes are kept apart when a token is decoded:              *)
(* get_current_user (on a cache miss) accepts only a token whose token_type *)
(* is 'access' and verify_refresh_token only one whose token_type is        *)
(* 'refresh'; a refresh token as bearer token, an access token given to     *)
(* the refresh, and a mailed token (no token_type) given to either are all  *)
(* rejected.                                                                *)
(***************************************************************************)
C27_TokenPurposesApart ==
    [][\A t \in Tasks :
          /\ (/\ IsIdle(t)
              /\ task'[t].op \in Resolvers
              /\ task'[t].tok.typ # "access") =>
                /\ ~task'[t].cached
                /\ task'[t].pc = "done"
                /\ task'[t].resp = credentials_exception
          /\ (Arrives(t, "refresh") /\ task'[t].tok.typ # "refresh") =>
                /\ task'[t].pc = "done"
                /\ task'[t].resp = InvalidRefreshToken]_vars

\* a refresh token that the store holds was presented as bearer token and
\* refused
C27_Witness ==
    \E t \in Tasks :
        /\ task[t].op \in Resolvers /\ task[t].pc = "done"
        /\ task[t].tok.typ = "refresh"
        /\ \E r \in refresh_tokens : r.token = task[t].tok
        /\ task[t].resp = credentials_exception

(***************************************************************************)
(* C28: under any interleaving of two get_current_user calls that present   *)
(* the same valid access token that is not cached, both calls return the    *)
(* user; each may decode the token and look the user up, both cache writes  *)
(* store the same value, and the cache entry at the end equals the one a    *)
(* single call would write.                                                 *)
(***************************************************************************)
\* task t resolved the token on a miss, and the token was valid then
MissedValid(t) ==
    /\ task[t].op = "get_current_user"
    /\ ~task[t].cached
    /\ jwt_decode(task[t].tok, task[t].at).ok
    /\ task[t].tok.typ = "access"

C28_ConcurrentMisses ==
    \A a, b \in Tasks :
        (/\ a # b
         /\ MissedValid(a) /\ MissedValid(b)
         /\ task[a].tok = task[b].tok
         /\ task[a].pc = "done") =>
           LET user == get_user_by_username(task[a].tok.sub)
               entries == {e \in cache : e.key = cache_key(task[a].tok)}
           IN  /\ task[a].resp = UserResponse(user)
               /\ task[a].calls = <<"cache.get", "jwt.decode", "get_user_by_username",
                                    "cache.set">>
               /\ task[b].pc = "done" => task[b].resp = task[a].resp
               /\ task[b].pc = "cache_set" => task[b].user = user
               /\ Cardinality(entries) <= 1
               /\ \A e \in entries : e.value = to_dict(user)

\* both calls missed, both wrote the entry, at different times
C28_Witness ==
    \E a, b \in Tasks :
        /\ a # b
        /\ MissedValid(a) /\ MissedValid(b)
        /\ task[a].tok = task[b].tok
        /\ task[a].pc = "done" /\ task[b].pc = "done"
        /\ task[a].resp.status = 200 /\ task[b].resp.status = 200
        /\ task[a].at < task[b].at
        /\ \E e \in cache : e.key = cache_key(task[a].tok) /\ e.set_at > task[a].at


\* C29: a call of RefreshTokenRepository.update_refresh_token whose pair of
\* old token string and user id matches no stored record returns None
\* (row 0), never reaches the commit and leaves every record as it was,
\* also when the string is the token of a record of another user; the same
\* holds for the select the refresh handler makes.
C29_UpdateWithoutMatch ==
    [][\A t \in Tasks :
         /\ ( /\ IsIdle(t)
              /\ task'[t].op = "update_refresh_token"
              /\ ~ \E r \in refresh_tokens :
                       r.token = task'[t].tok /\ r.user_id = task'[t].id )
            => /\ task'[t].pc = "done"
               /\ task'[t].row = 0
               /\ task'[t].resp = NoResp
               /\ refresh_tokens' = refresh_tokens
               /\ next_token_id' = next_token_id
         /\ ( /\ At(t, "refresh", "select")
              /\ task'[t] # task[t]
              /\ ~ \E r \in refresh_tokens :
                       r.token = task[t].tok /\ r.user_id = task[t].user.id )
            => /\ task'[t].pc = "done"
               /\ refresh_tokens' = refresh_tokens
               /\ next_token_id' = next_token_id]_vars

\* C29 witness: the call returned None for a string that is the token of a
\* record of another user
C29_Witness ==
    \E t \in Tasks :
        /\ task[t].op = "update_refresh_token"
        /\ task[t].pc = "done"
        /\ task[t].row = 0
        /\ task[t].resp = NoResp
        /\ \E r \in refresh_tokens :
               r.token = task[t].tok /\ r.user_id # task[t].id


\* C30: in every reachable state no two refresh token records hold the same
\* token string, also after logins and refreshes of one user within one
\* second of the clock, whose token strings are equal.
C30_TokenStringsUnique ==
    \A r1 \in refresh_tokens, r2 \in refresh_tokens :
        r1.token = r2.token => r1.id = r2.id

\* C30 witness: a login or a refresh made the string a record already holds
\* and was refused by the unique column, with the record in place
C30_Witness ==
    \E t \in Tasks :
        /\ task[t].op \in {"login", "refresh"}
        /\ task[t].pc = "done"
        /\ task[t].resp = ServerError("IntegrityError")
        /\ \E r \in refresh_tokens :
               /\ r.token = task[t].dto.token
               /\ r.created_at = now
               /\ r.user_id = task[t].user.id


\* the handler op of some task takes a step that writes the row of user id
Writes(op, id) ==
    \E t \in Tasks :
        /\ task[t].op = op
        /\ task'[t] # task[t]
        /\ task[t].user.id = id

\* C31: a stored user's hashed_password, role, confirmed and avatar change
\* only in a step of reset_password, update_user_role, confirmed_email and
\* update_avatar_user respectively, also when a request that was
\* authenticated from a cache entry commits its database session.
C31_ResolvingLeavesUsers ==
    [][\A u \in users, v \in users' :
          u.id = v.id =>
            /\ v.hashed_password # u.hashed_password => Writes("reset_password", u.id)
            /\ v.role # u.role => Writes("update_user_role", u.id)
            /\ v.confirmed # u.confirmed => Writes("confirmed_email", u.id)
            /\ v.avatar # u.avatar => Writes("update_avatar_user", u.id)]_vars

\* C31 witness: a request authenticated from a cache entry holds a merged
\* user whose hashed_password is not the stored one and is about to commit
C31_Witness ==
    \E t \in Tasks :
        /\ task[t].op \in {"create_contact", "update_avatar_user"}
        /\ task[t].pc \in {"body", "commit"}
        /\ task[t].cached
        /\ "hashed_password" \in task[t].dirty
        /\ get_user_by_id(task[t].user.id).hashed_password # task[t].user.hashed_password


\* C32: a confirmed_email or reset_password request goes on to write the
\* user with email E only when its token is one create_email_token made for
\* E (a token without token_type whose subject is E); an access or refresh
\* token of a login, whose subject is a username, is not accepted for
\* another user's email, also when that username equals the email.
C32_EmailTokenOnly ==
    [][\A t \in Tasks :
          ( /\ IsIdle(t)
            /\ task'[t].op \in {"confirmed_email", "reset_password"}
            /\ task'[t].pc = "commit" )
          => /\ task'[t].tok.typ = None
             /\ task'[t].tok.sub = task'[t].user.email]_vars

\* C32 witness: the access token of a login of the user whose username is
\* another user's email was given to reset_password, which goes on to write
\* that other user
C32_Witness ==
    \E t \in Tasks :
        /\ task[t].op = "reset_password"
        /\ task[t].pc = "commit"
        /\ task[t].tok.typ = "access"
        /\ task[t].tok \in known
        /\ task[t].user.email = task[t].tok.sub
        /\ task[t].user.username # task[t].tok.sub


\* the request of task t was authenticated: from the cache, or by the lookup
\* after the decode
Accepted(t) ==
    /\ task[t].op \in Resolvers
    /\ \/ task[t].cached
       \/ task[t].pc = "cache_set"
       \/ task[t].pc = "done" /\ task[t].resp.status # 401

\* C33 as stated: no bearer token is accepted by get_current_user later than
\* 3600 seconds after its exp time.
C33_AcceptedWithinHourOfExp ==
    \A t \in Tasks :
        Accepted(t) => task[t].at <= task[t].tok.exp + CACHE_EX

\* C33 amended: a bearer token is accepted by get_current_user without a
\* cache entry only while it decodes as unexpired, the request that writes
\* the entry of a token arrived while the token was unexpired, and a token
\* is accepted from its entry no later than 3600 seconds after the entry was
\* written.
C33_AcceptedWithinEntryLife ==
    [][\A t \in Tasks :
          /\ (IsIdle(t) /\ task'[t].op \in Resolvers /\ task'[t].cached)
             => \E e \in cache : /\ e.key = cache_key(task'[t].tok)
                                 /\ now <= e.set_at + CACHE_EX
          /\ (IsIdle(t) /\ task'[t].op \in Resolvers /\ task'[t].pc = "lookup")
             => now <= task'[t].tok.exp
          /\ (task[t].pc = "cache_set" /\ task'[t] # task[t])
             => /\ task[t].at <= task[t].tok.exp
                /\ \A e \in cache' \ cache :
                      e.key = cache_key(task[t].tok) /\ e.set_at = now]_vars

\* C33 witness: a token was accepted from its cache entry more than 3600
\* seconds after its exp; the entry was written in a second after exp by a
\* request that had decoded the token in its last valid second
C33_Witness ==
    \E t \in Tasks :
        /\ task[t].op \in Resolvers /\ task[t].cached
        /\ task[t].at > task[t].tok.exp + CACHE_EX
        /\ \E e \in cache : e.key = cache_key(task[t].tok) /\ e.set_at > task[t].tok.exp


\* C34: the confirmed flag is monotonic: a stored user whose confirmed flag
\* is true stays stored with the flag true in every step, also in the commit
\* of a request that was authenticated from a cache entry.
C34_ConfirmedMonotonic ==
    [][\A u \in users :
          u.confirmed => \E v \in users' : v.id = u.id /\ v.confirmed]_vars

\* C34 witness: the user confirmed through the mailed token logged in, was
\* authenticated from the cache entry of the access token and committed a
\* new contact, and is confirmed
C34_Witness ==
    \E t \in Tasks :
        /\ task[t].op = "create_contact" /\ task[t].pc = "done"
        /\ task[t].resp.status = 201
        /\ task[t].cached
        /\ task[t].user.username = "notconfirmed"
        /\ get_user_by_username("notconfirmed").confirmed


RecordsOf(rows, user_id) == {r \in rows : r.user_id = user_id}

\* C36: login never modifies or deletes a stored refresh token record; a
\* login that answers 200 adds exactly one record, of its user, and no other
\* step changes the number of a user's records; a refresh that presents the
\* unexpired string of a stored record is accepted and answers 200 with
\* tokens, whatever logins the user made since.
C36_LoginsKeepSessions ==
    [][/\ \A t \in Tasks :
            /\ (task[t].op = "login" \/ Arrives(t, "login")) /\ task'[t] # task[t]
               => /\ refresh_tokens \subseteq refresh_tokens'
                  /\ IF task'[t].pc = "done" /\ task'[t].resp.status = 200
                     THEN \E r \in refresh_tokens' \ refresh_tokens :
                             /\ refresh_tokens' = refresh_tokens \cup {r}
                             /\ r.user_id = task[t].user.id
                             /\ r.token = task'[t].resp.refresh_token
                     ELSE refresh_tokens' = refresh_tokens
            /\ ( /\ Arrives(t, "refresh")
                 /\ \E r \in refresh_tokens :
                       r.token = task'[t].tok /\ now <= r.expires_at )
               => task'[t].pc = "select"
            /\ (At(t, "refresh", "commit") /\ task'[t] # task[t])
               => task'[t].resp.status = 200
       /\ (~ \E t \in Tasks : task[t].op = "login" /\ task'[t] # task[t])
          => \A u \in users :
                Cardinality(RecordsOf(refresh_tokens', u.id))
                  = Cardinality(RecordsOf(refresh_tokens, u.id))]_vars

\* C36 witness: a user logged in twice, and the refresh with the token of
\* the first login, in the second of the second login, was refused by the
\* unique column because its new string is the token of the second login
C36_Witness ==
    \E t \in Tasks, r1 \in refresh_tokens, r2 \in refresh_tokens :
        /\ task[t].op = "refresh" /\ task[t].pc = "done"
        /\ task[t].resp = ServerError("IntegrityError")
        /\ r1.id = task[t].row /\ r1.token = task[t].tok
        /\ r2.id # r1.id /\ r2.user_id = r1.user_id
        /\ r2.token = task[t].dto.token


\* the password of the user has been reset to the new one
WasReset(user) == user.hashed_password = get_password_hash("NewPassword123!")

\* C37: a password reset changes only the hashed_password of its user: the
\* refresh token records and the cache are left as they are, and afterwards
\* an unexpired access token of that user is still accepted by
\* get_current_user and the unexpired stored refresh token by the refresh.
C37_ResetKeepsSessions ==
    [][\A t \in Tasks :
          /\ ((task[t].op = "reset_password" \/ Arrives(t, "reset_password"))
                 /\ task'[t] # task[t])
             => /\ refresh_tokens' = refresh_tokens
                /\ cache' = cache
                /\ \A u \in users :
                      \E v \in users' :
                         /\ [v EXCEPT !.hashed_password = u.hashed_password] = u
                         /\ v # u => u.id = task[t].user.id
          /\ ( /\ IsIdle(t) /\ task'[t].op \in Resolvers
               /\ task'[t].tok.typ = "access" /\ task'[t].tok.sig = "ok"
               /\ now <= task'[t].tok.exp
               /\ WasReset(get_user_by_username(task'[t].tok.sub)) )
             => task'[t].pc \in {"merge", "lookup"}
          /\ ( /\ task[t].op \in Resolvers /\ task[t].pc \in {"merge", "lookup", "cache_set"}
               /\ task'[t].pc = "done"
               /\ WasReset(get_user_by_username(task[t].tok.sub)) )
             => task'[t].resp = UserResponse(task'[t].user)
          /\ ( /\ Arrives(t, "refresh")
               /\ \E r \in refresh_tokens :
                     /\ r.token = task'[t].tok /\ now <= r.expires_at
                     /\ WasReset(get_user_by_id(r.user_id)) )
             => task'[t].pc = "select"]_vars

\* C37 witness: after the reset of the admin's password, the access token of
\* the login before it was resolved by the lookup, and the refresh token of
\* that login is still stored
C37_Witness ==
    \E t \in Tasks :
        /\ task[t].op = "get_current_user" /\ task[t].pc = "done"
        /\ ~task[t].cached
        /\ task[t].resp.status = 200
        /\ WasReset(task[t].user)
        /\ \E r \in refresh_tokens :
              r.user_id = task[t].user.id /\ r.token \in known


\* tasks a and b have both ended a register request with a valid body, and
\* the two bodies share the email or the username
SameIdentity(a, b) ==
    /\ a # b
    /\ Finished(a, "register") /\ Finished(b, "register")
    /\ UserCreate(task[a].body) /\ UserCreate(task[b].body)
    /\ \/ task[a].body.email = task[b].body.email
       \/ task[a].body.username = task[b].body.username

\* C38: of two register requests with the same email (or the same username)
\* that run concurrently, in every interleaving one creates the user and
\* answers 201 and the other answers 409.
C38_ConcurrentRegister ==
    \A a \in Tasks, b \in Tasks :
        (SameIdentity(a, b) /\ task[a].resp.status = 201)
        => task[b].resp.status = 409

\* C38 witness: both requests passed the two lookups before either insert;
\* one created the user and the insert of the other was refused by the
\* unique columns
C38_Witness ==
    \E a \in Tasks, b \in Tasks :
        /\ SameIdentity(a, b)
        /\ task[a].resp.status = 201
        /\ task[b].resp = ServerError("IntegrityError")
        /\ Cardinality({u \in users : u.email = task[b].body.email}) = 1


\* C39: login checks the credentials before the confirmation: a login that
\* is answered 'Email must be confirmed' gave the password of a stored,
\* unconfirmed user, and a login for an unconfirmed user with another
\* password is answered 'Not valid password or username'.
C39_PasswordBeforeConfirmation ==
    [][\A t \in Tasks :
          Arrives(t, "login") =>
            LET user == get_user_by_username(task'[t].body.username)
                right == /\ user # NoUser
                         /\ user.hashed_password = get_password_hash(task'[t].body.password)
            IN  /\ task'[t].resp = HTTPException(401, "Email must be confirmed")
                   => right /\ ~user.confirmed
                /\ (user # NoUser /\ ~user.confirmed /\ ~right)
                   => /\ task'[t].pc = "done"
                      /\ task'[t].resp = HTTPException(401, "Not valid password or username")]_vars

\* C39 witness: a login for the unconfirmed user with a wrong password was
\* answered 'Not valid password or username'
C39_Witness ==
    \E t \in Tasks :
        /\ Finished(t, "login")
        /\ task[t].body.username = "notconfirmed"
        /\ ~get_user_by_username("notconfirmed").confirmed
        /\ task[t].body.password # "NotPassword123!"
        /\ task[t].resp = HTTPException(401, "Not valid password or username")

====
